---- MODULE Spec2Model ----
(***************************************************************************)
(* Hypothesis generation and statistical validation engine.                *)
(*                                                                         *)
(* StatisticalTester (statistical_testing.py): execute_test_suite, the     *)
(* dispatcher _execute_single_test with its 22 _run_* helpers, and the     *)
(* multiple-comparison correction.                                         *)
(* HypothesisGenerator (hypothesis_generation.py): generate_hypotheses,    *)
(* the per-family generators, ranking, testability scoring and the         *)
(* validation of a hypothesis; the effect sizes, t-tests and Pearson       *)
(* correlation of StatisticalTester on two columns of small integers.      *)
(*                                                                         *)
(* p-values are integers in units of 1/PScale, confidences and correlation *)
(* coefficients in thousandths, testability scores in units of 1/ScoreOne. *)
(***************************************************************************)
EXTENDS Integers, Sequences, FiniteSets, TLC

VARIABLES
    \* ---- StatisticalTester ----
    correction_method,    \* self.correction_method, set by the constructor
    test_specifications,  \* the specifications the loop has consumed so far
    executed,             \* what _execute_single_test did for each of them
    results,              \* the local list `results` of execute_test_suite
    output,               \* <<>> until execute_test_suite returns <<dict>>
    pc,                   \* "loop" | "done" | "raised" (position of the call)
    \* ---- HypothesisGenerator ----
    eda_results,          \* self.eda_results (None until set)
    data,                 \* self.data (None until set)
    max_hypotheses,       \* self.max_hypotheses
    min_confidence,       \* self.min_confidence, in thousandths
    focus_areas,          \* self.focus_areas
    min_sample_size,      \* self.min_sample_size
    generated,            \* the local list `hypotheses` of generate_hypotheses
    returned,             \* <<>> until generate_hypotheses returns <<list>>
    hypothesis,           \* the hypothesis handed to _calculate_testability_score
                          \* (its variables) or to _validate_single_hypothesis
    score_before,         \* its score, and its score after rows were added
    score_after,
    gpc,                  \* position of the generator's caller
    validation,           \* None until _validate_single_hypothesis has left
    \* ---- the columns the numeric procedures of StatisticalTester read ----
    column1,              \* data[variables[0]], a list of values and nulls
    column2,              \* data[variables[1]], of the same length
    measured,             \* None until a batch has run on them, then its test_results
    \* ---- repeated calls of execute_test_suite on one dataset ----
    library,              \* what the numerical library computes from the dataset
    runs,                 \* the test_results of the calls made so far
    \* ---- the arguments of the last generate_hypotheses call ----
    sources               \* <<>> before the call, then <<data_source, eda_file>>

execVars == <<correction_method, test_specifications, executed, results, output, pc>>

genVars == <<eda_results, data, max_hypotheses, min_confidence, focus_areas,
             min_sample_size, generated, returned, hypothesis, score_before,
             score_after, gpc>>

numVars == <<validation, column1, column2, measured>>

callVars == <<library, runs, sources>>

vars == <<execVars, genVars, numVars, callVars>>

\* ------------------------------------------------------------------------
\* Bounds of the model
\* ------------------------------------------------------------------------
\* longest batch of test specifications
MaxSpecs == 3

\* ------------------------------------------------------------------------
\* Values
\* ------------------------------------------------------------------------
\* Python None / an Optional value
None == <<>>
Some(v) == <<v>>

Min(a, b) == IF a <= b THEN a ELSE b
Max(a, b) == IF a >= b THEN a ELSE b

\* the p-value 1.0
PScale == 12 * 100

\* p-values a procedure of scipy/statsmodels may compute: 0.01, 0.05, 0.6
PValues == {12, 60, 720}

\* ------------------------------------------------------------------------
\* The dataset handed to execute_test_suite: numeric columns x, y, z and
\* categorical columns g, b (two categories) and h (three categories).
\* The column q is in no dataset.
\* ------------------------------------------------------------------------
DataColumns == {"x", "y", "z", "g", "b", "h"}

\* number of distinct non-null values of a column (rows of pd.crosstab)
Levels(col) == IF col \in {"g", "b"} THEN 2 ELSE 3

\* ------------------------------------------------------------------------
\* TestResult and the outcome of one _execute_single_test call
\* ------------------------------------------------------------------------
TestResult(name, statistic, p, variables) ==
    [test_name |-> name, statistic |-> statistic, p_value |-> p, variables |-> variables]

Returned(r) == [kind |-> "returned", error |-> "", read_data |-> TRUE, value |-> <<r>>]
ReturnedNone == [kind |-> "none", error |-> "", read_data |-> FALSE, value |-> <<>>]
Raised(err, read) == [kind |-> "raised", error |-> err, read_data |-> read, value |-> <<>>]

\* ------------------------------------------------------------------------
\* The dispatch table of _execute_single_test and the _run_* helpers
\* ------------------------------------------------------------------------
OneVariableTests ==
    {"shapiro_wilk", "kolmogorov_smirnov", "anderson_darling", "jarque_bera",
     "augmented_dickey_fuller", "kpss_test", "ljung_box"}

TwoVariableTests ==
    {"t_test_independent", "t_test_paired", "mann_whitney_u",
     "wilcoxon_signed_rank", "pearson_correlation", "spearman_correlation",
     "kendall_tau", "chi_square_independence", "fisher_exact",
     "cohens_d", "hedges_g"}

GroupTests == {"anova_one_way", "kruskal_wallis", "levene_test", "bartlett_test"}

test_methods == OneVariableTests \cup TwoVariableTests \cup GroupTests

\* mutant: the two-variable helpers test `len(variables) < 2`
VariableCountAtLeast(test, n) ==
    IF test \in OneVariableTests THEN n = 1 ELSE n >= 2

\* the `if len(variables) ...: raise ValueError` that opens every _run_* helper
VariableCountOk(test, n) ==
    IF test \in OneVariableTests THEN n = 1
    ELSE IF test \in TwoVariableTests THEN n = 2
    ELSE n >= 2

\* TestResult.test_name set by each procedure
TestName(test) ==
    CASE test = "shapiro_wilk" -> "Shapiro-Wilk Normality Test"
      [] test = "kolmogorov_smirnov" -> "Kolmogorov-Smirnov Normality Test"
      [] test = "anderson_darling" -> "Anderson-Darling Normality Test"
      [] test = "jarque_bera" -> "Jarque-Bera Normality Test"
      [] test = "t_test_independent" -> "Independent Samples t-test"
      [] test = "t_test_paired" -> "Paired Samples t-test"
      [] test = "mann_whitney_u" -> "Mann-Whitney U Test"
      [] test = "wilcoxon_signed_rank" -> "Wilcoxon Signed-Rank Test"
      [] test = "anova_one_way" -> "One-way ANOVA"
      [] test = "kruskal_wallis" -> "Kruskal-Wallis Test"
      [] test = "levene_test" -> "Levene's Test for Equal Variances"
      [] test = "bartlett_test" -> "Bartlett's Test for Equal Variances"
      [] test = "pearson_correlation" -> "Pearson Product-Moment Correlation"
      [] test = "spearman_correlation" -> "Spearman Rank Correlation"
      [] test = "kendall_tau" -> "Kendall's Tau Correlation"
      [] test = "chi_square_independence" -> "Chi-square Test of Independence"
      [] test = "fisher_exact" -> "Fisher's Exact Test"
      [] test = "augmented_dickey_fuller" -> "Augmented Dickey-Fuller Test"
      [] test = "kpss_test" -> "KPSS Stationarity Test"
      [] test = "ljung_box" -> "Ljung-Box Test for Autocorrelation"
      [] test = "cohens_d" -> "Cohen's d Effect Size"
      [] test = "hedges_g" -> "Hedges' g Effect Size"

\* What the numerical library does for one call is an input of the model:
\* env.lib_ok    - the scipy/statsmodels routine returns (FALSE: it raises)
\* env.statistic - the statistic it returns
\* env.p         - the p-value it returns
\* env.exceeds   - Anderson-Darling: how many of the five critical values
\*                 (ascending, for the 15%, 10%, 5%, 2.5% and 1% levels) the
\*                 statistic exceeds
Statistics == {0, 3}

CriticalValuesExceeded == 0..5

Envs ==
    [lib_ok : BOOLEAN, statistic : Statistics, p : PValues, exceeds : CriticalValuesExceeded]

\* mutant: no shape check before fisher_exact
FisherWithoutShapeCheck(variables, env) ==
    IF env.lib_ok
    THEN Returned(TestResult(TestName("fisher_exact"), env.statistic, Some(env.p), variables))
    ELSE Raised("LibraryError", TRUE)

\* test_fisher_exact: the contingency table must be 2x2
test_fisher_exact(variables, env) ==
    LET shape == <<Levels(variables[1]), Levels(variables[2])>>
    IN  IF shape # <<2, 2>>
        THEN Raised("ValueError", TRUE)
        ELSE IF env.lib_ok
             THEN Returned(TestResult(TestName("fisher_exact"), env.statistic, Some(env.p), variables))
             ELSE Raised("LibraryError", TRUE)

\* mutant: the exception of the library leaves the procedure
TestWithoutFallback(test, variables, env) ==
    IF env.lib_ok
    THEN Returned(TestResult(TestName(test), env.statistic, Some(env.p), variables))
    ELSE Raised("LibraryError", TRUE)

\* test_kpss_stationarity, test_ljung_box: a bare except replaces a failed
\* computation by statistic 0, p-value 1
TestWithFallback(test, variables, env) ==
    Returned(TestResult(TestName(test),
                        IF env.lib_ok THEN env.statistic ELSE 0,
                        Some(IF env.lib_ok THEN env.p ELSE PScale),
                        variables))

\* mutant: the statistic is compared with critical_values[1]
AndersonSecondCriticalValue(variables, env) ==
    IF env.lib_ok
    THEN Returned(TestResult(TestName("anderson_darling"),
                             env.statistic,
                             Some(IF env.exceeds >= 2 THEN 60 ELSE 120),
                             variables))
    ELSE Raised("LibraryError", TRUE)

\* test_anderson_darling: a two-level p-value, 0.05 or 0.10; the statistic
\* is greater than critical_values[2] when it exceeds three critical values
test_anderson_darling(variables, env) ==
    IF env.lib_ok
    THEN Returned(TestResult(TestName("anderson_darling"),
                             env.statistic,
                             Some(IF env.exceeds >= 3 THEN 60 ELSE 120),
                             variables))
    ELSE Raised("LibraryError", TRUE)

\* calculate_cohens_d, calculate_hedges_g: p_value=None
EffectSize(test, variables, env) ==
    IF env.lib_ok
    THEN Returned(TestResult(TestName(test), env.statistic, None, variables))
    ELSE Raised("LibraryError", TRUE)

\* every other test_* procedure: the library's p-value, or its exception
LibraryTest(test, variables, env) ==
    IF env.lib_ok
    THEN Returned(TestResult(TestName(test), env.statistic, Some(env.p), variables))
    ELSE Raised("LibraryError", TRUE)

Procedure(test, variables, env) ==
    CASE test = "fisher_exact" -> test_fisher_exact(variables, env)
      [] test \in {"kpss_test", "ljung_box"} -> TestWithFallback(test, variables, env)
      [] test = "anderson_darling" -> test_anderson_darling(variables, env)
      [] test \in {"cohens_d", "hedges_g"} -> EffectSize(test, variables, env)
      [] OTHER -> LibraryTest(test, variables, env)

\* a _run_* helper: the count check, then data[variables[i]] (KeyError for a
\* column the dataset lacks), then the procedure
RunHelper(test, variables, env) ==
    IF ~VariableCountOk(test, Len(variables))
    THEN Raised("ValueError", FALSE)
    ELSE IF \E i \in 1..Len(variables) : variables[i] \notin DataColumns
         THEN Raised("KeyError", TRUE)
         ELSE Procedure(test, variables, env)

\* _execute_single_test
ExecuteSingleTest(test_spec, env) ==
    IF test_spec.test \notin test_methods
    THEN ReturnedNone
    ELSE RunHelper(test_spec.test, test_spec.variables, env)

\* ------------------------------------------------------------------------
\* Multiple-comparison correction (statsmodels multipletests)
\* ------------------------------------------------------------------------
\* rank of p_values[i] in np.argsort order (ties in index order)
SortPos(p_values, i) ==
    1 + Cardinality({j \in 1..Len(p_values) :
                        \/ p_values[j] < p_values[i]
                        \/ (p_values[j] = p_values[i] /\ j < i)})

SetMax(S) == CHOOSE m \in S : \A x \in S : x <= m
SetMin(S) == CHOOSE m \in S : \A x \in S : m <= x

\* mutant: the product is not clipped at 1
BonferroniUnclipped(p_values) ==
    [i \in 1..Len(p_values) |-> p_values[i] * Len(p_values)]

\* method='bonferroni': pvals * ntests, clipped at 1
Bonferroni(p_values) ==
    [i \in 1..Len(p_values) |-> Min(PScale, p_values[i] * Len(p_values))]

\* method='holm': sorted pvals * (ntests, ..., 1), running maximum, clipped at 1
Holm(p_values) ==
    LET n == Len(p_values)
        raw(j) == p_values[j] * (n - SortPos(p_values, j) + 1)
    IN  [i \in 1..n |->
            Min(PScale, SetMax({raw(j) : j \in {k \in 1..n :
                                 SortPos(p_values, k) <= SortPos(p_values, i)}}))]

\* method='fdr_bh': sorted pvals / (rank/ntests), running minimum from the
\* largest, clipped at 1
BenjaminiHochberg(p_values) ==
    LET n == Len(p_values)
        raw(j) == (p_values[j] * n) \div SortPos(p_values, j)
    IN  [i \in 1..n |->
            Min(PScale, SetMin({raw(j) : j \in {k \in 1..n :
                                 SortPos(p_values, k) >= SortPos(p_values, i)}}))]

CorrectionMethods == {"benjamini_hochberg", "bonferroni", "holm"}

\* _apply_multiple_comparison_correction: for any other method the list is
\* kept as it is and `corrected_p_values.tolist()` raises AttributeError
ApplyMultipleComparisonCorrection(method, p_values) ==
    CASE method = "benjamini_hochberg" ->
            [raised |-> FALSE, value |-> BenjaminiHochberg(p_values)]
      [] method = "bonferroni" ->
            [raised |-> FALSE, value |-> Bonferroni(p_values)]
      [] method = "holm" ->
            [raised |-> FALSE, value |-> Holm(p_values)]
      [] OTHER ->
            [raised |-> TRUE, value |-> p_values]

\* ------------------------------------------------------------------------
\* execute_test_suite
\* ------------------------------------------------------------------------
HasP(r) == r.p_value # None

\* p_values = [r['p_value'] for r in results if r['p_value'] is not None]
PValuesOf(rs) ==
    LET withP == SelectSeq(rs, HasP)
    IN  [i \in 1..Len(withP) |-> withP[i].p_value[1]]

\* value of p_idx when the write-back loop reaches results[i]
PIdx(rs, i) == Cardinality({j \in 1..(i - 1) : HasP(rs[j])})

\* result['corrected_p_value'] = v
SetCorrected(r, v) ==
    [k \in DOMAIN r \cup {"corrected_p_value"} |->
        IF k = "corrected_p_value" THEN v ELSE r[k]]

\* mutant: the corrected value is taken at the result's own index
WriteBackByPosition(rs, corrected_p_values) ==
    [i \in 1..Len(rs) |->
        IF HasP(rs[i])
        THEN SetCorrected(rs[i], corrected_p_values[Min(i, Len(corrected_p_values))])
        ELSE rs[i]]

\* the write-back loop of execute_test_suite
WriteBack(rs, corrected_p_values) ==
    [i \in 1..Len(rs) |->
        IF HasP(rs[i])
        THEN SetCorrected(rs[i], corrected_p_values[PIdx(rs, i) + 1])
        ELSE rs[i]]

\* mutant: the guard counts the p-values, not the results
CorrectionNeedsTwoPValues(rs) == Len(PValuesOf(rs)) > 1

\* the guard of the correction block: `if len(results) > 1` and `if p_values`
CorrectionApplies(rs) == Len(rs) > 1 /\ PValuesOf(rs) # <<>>

\* mutant: results.insert(0, ...)
CollectInFront(rs, out) ==
    IF out.kind = "returned" THEN <<out.value[1]>> \o rs ELSE rs

\* mutant: the except branch appends an entry for the failed test
CollectWithFailureEntry(rs, out) ==
    IF out.kind = "returned" THEN Append(rs, out.value[1])
    ELSE IF out.kind = "raised"
         THEN Append(rs, [test_name |-> "", p_value |-> None,
                          variables |-> <<>>, error |-> out.error])
         ELSE rs

\* the body of the loop: `if result: results.append(result.to_dict())`, and
\* `except Exception: print(...); continue`
Collect(rs, out) ==
    IF out.kind = "returned" THEN Append(rs, out.value[1]) ELSE rs

\* the specifications a batch is drawn from: a correlation, Fisher's test on
\* a 2x2 table, an effect size without p-value, Fisher's test on a 2x3
\* table, a two-sample test given three variables, an identifier the
\* dispatch table lacks, a test of a column the dataset lacks, a
\* stationarity test whose failure is replaced by a fallback result, and an
\* autocorrelation test of a column the dataset lacks
BatchSpecs ==
    {[test |-> "pearson_correlation", variables |-> <<"x", "y">>],
     [test |-> "fisher_exact", variables |-> <<"g", "b">>],
     [test |-> "cohens_d", variables |-> <<"x", "y">>],
     [test |-> "fisher_exact", variables |-> <<"g", "h">>],
     [test |-> "t_test_independent", variables |-> <<"x", "y", "z">>],
     [test |-> "multiple_regression", variables |-> <<"x", "y">>],
     [test |-> "pearson_correlation", variables |-> <<"x", "q">>],
     [test |-> "kpss_test", variables |-> <<"x">>],
     [test |-> "ljung_box", variables |-> <<"q">>]}

\* the library outcomes a batch is drawn from
BatchEnvs == {e \in Envs : e.exceeds = 0 /\ e.statistic = 3 /\ e.p \in {12, 720}}

\* the constructor accepts any string as correction_method
ConfiguredMethods == CorrectionMethods \cup {"none"}

\* no HypothesisGenerator has been constructed
\* nothing validated, no column handed to a numeric procedure
NoColumns ==
    /\ validation = <<>>
    /\ column1 = <<>>
    /\ column2 = <<>>
    /\ measured = <<>>
    /\ library = <<>>
    /\ runs = <<>>
    /\ sources = <<>>

\* a HypothesisGenerator nothing was asked of
GeneratorIdle ==
    /\ eda_results = None
    /\ data = None
    /\ max_hypotheses = 10
    /\ min_confidence = 600
    /\ focus_areas = {}
    /\ min_sample_size = 30
    /\ generated = <<>>
    /\ returned = <<>>
    /\ hypothesis = <<>>
    /\ score_before = None
    /\ score_after = None
    /\ gpc = "idle"

NoGenerator == GeneratorIdle /\ NoColumns

ExecInit ==
    /\ correction_method \in ConfiguredMethods
    /\ test_specifications = <<>>
    /\ executed = <<>>
    /\ results = <<>>
    /\ output = <<>>
    /\ pc = "loop"
    /\ NoGenerator

\* one iteration of `for test_spec in test_specifications`
RunNextTest ==
    /\ pc = "loop"
    /\ Len(test_specifications) < MaxSpecs
    /\ \E test_spec \in BatchSpecs, env \in BatchEnvs :
          LET out == ExecuteSingleTest(test_spec, env)
          IN  /\ test_specifications' = Append(test_specifications, test_spec)
              /\ executed' = Append(executed, out)
              /\ results' = Collect(results, out)
    /\ UNCHANGED <<correction_method, output, pc, genVars, numVars, callVars>>

\* the end of the list: the correction block and the return
FinishSuite ==
    /\ pc = "loop"
    /\ LET applies == CorrectionApplies(results)
           corr == ApplyMultipleComparisonCorrection(correction_method,
                                                     PValuesOf(results))
       IN  IF applies /\ corr.raised
           THEN /\ pc' = "raised"
                /\ UNCHANGED <<results, output>>
           ELSE LET final == IF applies THEN WriteBack(results, corr.value)
                             ELSE results
                IN  /\ results' = final
                    /\ output' = <<[success |-> TRUE,
                                    test_results |-> final,
                                    metadata |->
                                      [total_tests_executed |-> Len(final),
                                       correction_method |-> correction_method]]>>
                    /\ pc' = "done"
    /\ UNCHANGED <<correction_method, test_specifications, executed, genVars, numVars, callVars>>

Init == ExecInit

Next == RunNextTest \/ FinishSuite

Spec == Init /\ [][Next]_vars

\* ------------------------------------------------------------------------
\* One call of _execute_single_test, for every identifier and variable list
\* ------------------------------------------------------------------------
\* longest variable list of a test specification
MaxVariables == 3

VariableNames == {"x", "g", "b", "h", "q"}

VariableLists == UNION {[1..n -> VariableNames] : n \in 0..MaxVariables}

\* the 22 identifiers of the table and two it lacks
TestIdentifiers == test_methods \cup {"multiple_regression", "causal_inference"}

DispatchInit ==
    /\ correction_method = "benjamini_hochberg"
    /\ test_specifications = <<>>
    /\ executed = <<>>
    /\ results = <<>>
    /\ output = <<>>
    /\ pc = "single"
    /\ NoGenerator

CallExecuteSingleTest ==
    /\ pc = "single"
    /\ executed = <<>>
    /\ \E test \in TestIdentifiers, variables \in VariableLists, env \in Envs :
          LET test_spec == [test |-> test, variables |-> variables]
          IN  /\ test_specifications' = <<test_spec>>
              /\ executed' = <<ExecuteSingleTest(test_spec, env)>>
    /\ UNCHANGED <<correction_method, results, output, pc, genVars, numVars, callVars>>

DispatchNext == CallExecuteSingleTest

DispatchSpec == DispatchInit /\ [][DispatchNext]_vars

\* ------------------------------------------------------------------------
\* execute_test_suite called repeatedly on one dataset with one
\* specification. What the library computes is a function of the values it
\* is handed; library.env is its outcome for the columns of the dataset and
\* library.large tells whether the dataset has more than 5000 rows.
\* ------------------------------------------------------------------------
MaxRuns == 2

LibraryInputs == [env : Envs, large : BOOLEAN]

\* the specifications of the repeated call
RepeatSpecs ==
    {[test |-> "shapiro_wilk", variables |-> <<"x">>],
     [test |-> "anderson_darling", variables |-> <<"x">>],
     [test |-> "kolmogorov_smirnov", variables |-> <<"x">>],
     [test |-> "pearson_correlation", variables |-> <<"x", "y">>],
     [test |-> "shapiro_wilk", variables |-> <<"q">>]}

\* the outcomes the library call of a procedure may have: test_shapiro_wilk
\* hands it data.sample(5000) when len(data) > 5000, rows drawn afresh by
\* every call (no random_state), so statistic and p-value are those of any
\* subsample; every other procedure hands it the column itself
LibraryOutcomes(test, lib) ==
    IF test = "shapiro_wilk" /\ lib.large
    THEN {[lib.env EXCEPT !.statistic = s, !.p = p] : s \in Statistics, p \in PValues}
    ELSE {lib.env}

RepeatInit ==
    /\ correction_method = "benjamini_hochberg"
    /\ test_specifications \in {<<test_spec>> : test_spec \in RepeatSpecs}
    /\ executed = <<>>
    /\ results = <<>>
    /\ output = <<>>
    /\ pc = "repeat"
    /\ GeneratorIdle
    /\ validation = <<>>
    /\ column1 = <<>>
    /\ column2 = <<>>
    /\ measured = <<>>
    /\ library \in LibraryInputs
    /\ runs = <<>>
    /\ sources = <<>>

\* execute_test_suite(data, test_specifications) once more; with a single
\* specification the correction block is skipped (len(results) <= 1)
RunSuiteAgain ==
    /\ pc = "repeat"
    /\ Len(runs) < MaxRuns
    /\ \E env \in LibraryOutcomes(test_specifications[1].test, library) :
          runs' = Append(runs, Collect(<<>>, ExecuteSingleTest(test_specifications[1], env)))
    /\ UNCHANGED <<execVars, genVars, numVars, library, sources>>

RepeatNext == RunSuiteAgain

RepeatSpec == RepeatInit /\ [][RepeatNext]_vars

\* ------------------------------------------------------------------------
\* The dataset of the HypothesisGenerator (a pandas DataFrame):
\*   columns  - the column names, in DataFrame order
\*   numeric  - the columns select_dtypes(include=[np.number]) keeps
\*   constant - the columns whose var() is 0
\*   rows     - for each set of columns it lists, the number of rows in which
\*              exactly these columns are null
\* ------------------------------------------------------------------------
RECURSIVE SumOver(_, _)
SumOver(f, S) ==
    IF S = {} THEN 0
    ELSE LET x == CHOOSE y \in S : TRUE
         IN  f[x] + SumOver(f, S \ {x})

SeqToSet(seq) == {seq[i] : i \in 1..Len(seq)}

\* len(self.data)
NumRows(d) == SumOver(d.rows, DOMAIN d.rows)

\* self.data[var].isnull().sum()
NullCount(d, var) == SumOver(d.rows, {n \in DOMAIN d.rows : var \in n})

\* len(self.data.dropna(subset=variables))
CompleteRows(d, variables) ==
    SumOver(d.rows, {n \in DOMAIN d.rows : n \cap SeqToSet(variables) = {}})

\* ------------------------------------------------------------------------
\* _calculate_testability_score
\* ------------------------------------------------------------------------
\* the score 1.0
ScoreOne == 10 ^ 6

\* score *= m / 10
Times(score, m) == (score * m) \div 10

\* mutant: a missing ratio up to 0.3 goes unpenalised
VariableFactorOneTier(d, var) ==
    IF var \notin SeqToSet(d.columns) THEN 3
    ELSE IF 10 * NullCount(d, var) > 3 * NumRows(d) THEN 7
    ELSE 10

\* the data-quality factor of one variable, in tenths: 0.3 for a column the
\* dataset lacks, 0.7 for missing_ratio > 0.3, 0.9 for missing_ratio > 0.1
\* (0 / 0 is nan, which exceeds neither threshold)
VariableFactor(d, var) ==
    IF var \notin SeqToSet(d.columns) THEN 3
    ELSE IF 10 * NullCount(d, var) > 3 * NumRows(d) THEN 7
    ELSE IF 10 * NullCount(d, var) > NumRows(d) THEN 9
    ELSE 10

\* the sample-size factor, in tenths
SampleSizeFactor(available_sample_size, min_size) ==
    IF available_sample_size < min_size THEN 5
    ELSE IF available_sample_size < min_size * 2 THEN 8
    ELSE 10

\* mutant: the bonus goes to the small samples
SimplicityBonusBelow100(num_variables, available_sample_size) ==
    IF num_variables <= 2 /\ available_sample_size < 100 THEN 11 ELSE 10

\* the bonus for simple, well-powered tests, in tenths
SimplicityBonus(num_variables, available_sample_size) ==
    IF num_variables <= 2 /\ available_sample_size > 100 THEN 11 ELSE 10

RECURSIVE VariablesScore(_, _, _)
\* the score after the loop over hypothesis.variables[1..n]
VariablesScore(d, variables, n) ==
    IF n = 0 THEN ScoreOne
    ELSE Times(VariablesScore(d, variables, n - 1), VariableFactor(d, variables[n]))

\* _calculate_testability_score: [raised, value]; dropna(subset=...) raises
\* KeyError when a variable is no column of the dataset
CalculateTestabilityScore(d, variables, min_size) ==
    IF d = None THEN [raised |-> FALSE, value |-> ScoreOne \div 2]
    ELSE IF \E i \in 1..Len(variables) : variables[i] \notin SeqToSet(d[1].columns)
    THEN [raised |-> TRUE, value |-> 0]
    ELSE LET available_sample_size == CompleteRows(d[1], variables)
             score == Times(Times(VariablesScore(d[1], variables, Len(variables)),
                                  SampleSizeFactor(available_sample_size, min_size)),
                            SimplicityBonus(Len(variables), available_sample_size))
         IN  [raised |-> FALSE, value |-> Min(score, ScoreOne)]

\* ------------------------------------------------------------------------
\* Testability of one hypothesis while its dataset grows
\* ------------------------------------------------------------------------
\* largest dataset
MaxRows == 150

ScoreColumns == <<"marketing_spend", "sales_revenue", "price">>

\* datasets of three numeric columns with nulls in the first two
ScoreDatasets ==
    {[columns |-> ScoreColumns,
      numeric |-> SeqToSet(ScoreColumns),
      constant |-> {},
      rows |-> [n \in SUBSET SeqToSet(ScoreColumns) |->
                  CASE n = {} -> c
                    [] n = {"marketing_spend"} -> m
                    [] n = {"sales_revenue"} -> r
                    [] n = {"marketing_spend", "sales_revenue"} -> b
                    [] OTHER -> 0]] :
        c \in {0, 25, 55}, m \in {0, 10}, r \in {0, 10}, b \in {0, 10}}

\* variable lists of the hypothesis; region is no column
ScoreVariables ==
    {<<"marketing_spend">>,
     <<"marketing_spend", "sales_revenue">>,
     <<"marketing_spend", "sales_revenue", "price">>,
     <<"marketing_spend", "region">>}

RowIncrements == {30, 70}

ExecIdle ==
    /\ correction_method = "benjamini_hochberg"
    /\ test_specifications = <<>>
    /\ executed = <<>>
    /\ results = <<>>
    /\ output = <<>>
    /\ pc = "idle"

ScoreInit ==
    /\ ExecIdle
    /\ eda_results = None
    /\ data \in {None} \cup {Some(d) : d \in ScoreDatasets}
    /\ max_hypotheses = 10
    /\ min_confidence = 600
    /\ focus_areas = {}
    /\ min_sample_size \in {30, 40}
    /\ generated = <<>>
    /\ returned = <<>>
    /\ hypothesis \in ScoreVariables
    /\ score_before = None
    /\ score_after = None
    /\ gpc = "unscored"
    /\ NoColumns

ScoreUnchanged ==
    UNCHANGED <<execVars, numVars, callVars, eda_results, max_hypotheses, min_confidence, focus_areas,
                min_sample_size, generated, returned, hypothesis>>

\* a first call of _calculate_testability_score
ScoreHypothesis ==
    /\ gpc = "unscored"
    /\ score_before' = Some(CalculateTestabilityScore(data, hypothesis, min_sample_size))
    /\ gpc' = "scored"
    /\ UNCHANGED <<data, score_after>>
    /\ ScoreUnchanged

\* the dataset gains k rows that are complete in every variable of the
\* hypothesis (and null in the columns of `nulls`, none of them its variable)
AddCompleteRows ==
    /\ gpc = "scored"
    /\ data # None
    /\ \E k \in RowIncrements,
          nulls \in SUBSET (SeqToSet(data[1].columns) \ SeqToSet(hypothesis)) :
          /\ NumRows(data[1]) + k <= MaxRows
          /\ data' = Some([data[1] EXCEPT !.rows[nulls] = @ + k])
    /\ UNCHANGED <<score_before, score_after, gpc>>
    /\ ScoreUnchanged

\* a second call, on the grown dataset
RescoreHypothesis ==
    /\ gpc = "scored"
    /\ score_after' = Some(CalculateTestabilityScore(data, hypothesis, min_sample_size))
    /\ gpc' = "rescored"
    /\ UNCHANGED <<data, score_before>>
    /\ ScoreUnchanged

ScoreNext == ScoreHypothesis \/ AddCompleteRows \/ RescoreHypothesis

ScoreSpec == ScoreInit /\ [][ScoreNext]_vars

\* ------------------------------------------------------------------------
\* Hypothesis and the per-family generators
\* ------------------------------------------------------------------------
Abs(x) == IF x < 0 THEN -x ELSE x

\* Hypothesis(...): priority and testability_score are None until ranking.
\* The id f"corr_pos_{var1}_{var2}" is the tuple of its parts.
Hypothesis(id, variables, variable_types, statistical_test, expected_direction, expected_effect_size, confidence) ==
    [id |-> id,
     variables |-> variables,
     variable_types |-> variable_types,
     statistical_test |-> statistical_test,
     expected_direction |-> expected_direction,
     expected_effect_size |-> expected_effect_size,
     confidence |-> confidence,
     priority |-> None,
     testability_score |-> None]

\* the hypothesis of one entry of correlations.strong_positive
PositiveCorrelationHypothesis(corr) ==
    Hypothesis(<<"corr_pos", corr.var1, corr.var2>>,
               <<corr.var1, corr.var2>>,
               [v \in {corr.var1, corr.var2} |-> "numeric"],
               "pearson_correlation",
               "positive",
               IF corr.correlation > 700 THEN "large" ELSE "medium",
               Min(Abs(corr.correlation), 950))

\* the hypothesis of one entry of correlations.strong_negative
NegativeCorrelationHypothesis(corr) ==
    Hypothesis(<<"corr_neg", corr.var1, corr.var2>>,
               <<corr.var1, corr.var2>>,
               [v \in {corr.var1, corr.var2} |-> "numeric"],
               "pearson_correlation",
               "negative",
               IF Abs(corr.correlation) > 700 THEN "large" ELSE "medium",
               Min(Abs(corr.correlation), 950))

\* mutant: confidence=abs(correlation), without the cap at 0.95
UncappedCorrelationHypotheses(eda) ==
    IF eda.correlations = None THEN <<>>
    ELSE LET c == eda.correlations[1]
         IN  [i \in 1..Len(c.strong_positive) |->
                [PositiveCorrelationHypothesis(c.strong_positive[i])
                    EXCEPT !.confidence = Abs(c.strong_positive[i].correlation)]]
             \o [i \in 1..Len(c.strong_negative) |->
                NegativeCorrelationHypothesis(c.strong_negative[i])]

\* _generate_correlation_hypotheses
GenerateCorrelationHypotheses(eda) ==
    IF eda.correlations = None THEN <<>>
    ELSE LET c == eda.correlations[1]
         IN  [i \in 1..Len(c.strong_positive) |->
                PositiveCorrelationHypothesis(c.strong_positive[i])]
             \o [i \in 1..Len(c.strong_negative) |->
                NegativeCorrelationHypothesis(c.strong_negative[i])]

\* mutant: a summary without the section is read as the default summary
ComparisonWithDefaultSection(eda) ==
    LET sig == IF eda.group_differences = None
               THEN <<[grouping_var |-> "product_category",
                       outcome_var |-> "sales_revenue", effect_size |-> "medium"]>>
               ELSE eda.group_differences[1].significant
    IN  [i \in 1..Len(sig) |->
           Hypothesis(<<"comp", sig[i].grouping_var, sig[i].outcome_var>>,
                      <<sig[i].grouping_var, sig[i].outcome_var>>,
                      [v \in {sig[i].grouping_var, sig[i].outcome_var} |->
                          IF v = sig[i].outcome_var THEN "numeric"
                          ELSE "categorical"],
                      "anova_one_way",
                      "difference",
                      sig[i].effect_size,
                      IF sig[i].effect_size = "large" THEN 800 ELSE 700)]

\* _generate_comparison_hypotheses
GenerateComparisonHypotheses(eda) ==
    IF eda.group_differences = None THEN <<>>
    ELSE LET sig == eda.group_differences[1].significant
         IN  [i \in 1..Len(sig) |->
                Hypothesis(<<"comp", sig[i].grouping_var, sig[i].outcome_var>>,
                           <<sig[i].grouping_var, sig[i].outcome_var>>,
                           [v \in {sig[i].grouping_var, sig[i].outcome_var} |->
                               IF v = sig[i].outcome_var THEN "numeric"
                               ELSE "categorical"],
                           "anova_one_way",
                           "difference",
                           sig[i].effect_size,
                           IF sig[i].effect_size = "large" THEN 800 ELSE 700)]

\* numeric_vars / categorical_vars of _generate_prediction_hypotheses
NumericVars(d) == SelectSeq(d.columns, LAMBDA c : c \in d.numeric)
CategoricalVars(d) == SelectSeq(d.columns, LAMBDA c : c \notin d.numeric)

\* the first n elements of a list: list[:n]
Take(seq, n) == SubSeq(seq, 1, Min(n, Len(seq)))

\* mutant: the outcome variable stays among its own predictors
PredictionFromAllColumns(d, outcome_var) ==
    LET predictors == NumericVars(d) \o CategoricalVars(d)
        top_predictors == Take(predictors, 3)
        variables == <<outcome_var>> \o top_predictors
    IN  IF outcome_var \in d.constant \/ Len(predictors) < 2 THEN <<>>
        ELSE <<Hypothesis(<<"pred", outcome_var, "multi">>,
                          variables,
                          [v \in SeqToSet(variables) |->
                              IF v \in d.numeric THEN "numeric" ELSE "categorical"],
                          "multiple_regression",
                          "prediction",
                          "medium",
                          650)>>

\* the hypothesis of one outcome variable, <<>> when it is skipped
PredictionHypothesisOf(d, outcome_var) ==
    LET predictors == SelectSeq(NumericVars(d) \o CategoricalVars(d),
                                LAMBDA v : v # outcome_var)
        top_predictors == Take(predictors, 3)
        variables == <<outcome_var>> \o top_predictors
    IN  IF outcome_var \in d.constant \/ Len(predictors) < 2 THEN <<>>
        ELSE <<Hypothesis(<<"pred", outcome_var, "multi">>,
                          variables,
                          [v \in SeqToSet(variables) |->
                              IF v \in d.numeric THEN "numeric" ELSE "categorical"],
                          "multiple_regression",
                          "prediction",
                          "medium",
                          650)>>

RECURSIVE PredictionHypothesesUpTo(_, _)
PredictionHypothesesUpTo(d, n) ==
    IF n = 0 THEN <<>>
    ELSE PredictionHypothesesUpTo(d, n - 1)
            \o PredictionHypothesisOf(d, NumericVars(d)[n])

\* _generate_prediction_hypotheses
GeneratePredictionHypotheses(d) ==
    IF d = None THEN <<>>
    ELSE PredictionHypothesesUpTo(d[1], Len(NumericVars(d[1])))

\* str.lower() on the column names of the model
Lower(name) == IF name = "Price" THEN "price" ELSE name

causal_patterns ==
    {<<"marketing_spend", "sales_revenue">>,
     <<"price", "sales_volume">>,
     <<"customer_satisfaction", "repeat_purchases">>,
     <<"training_hours", "performance">>,
     <<"experience", "salary">>}

\* mutant: every strongly correlated pair counts as plausible
AnyPairPlausible(var1, var2) == TRUE

\* _is_plausible_causal_relationship
IsPlausibleCausalRelationship(var1, var2) ==
    \/ <<Lower(var1), Lower(var2)>> \in causal_patterns
    \/ <<Lower(var2), Lower(var1)>> \in causal_patterns

\* mutant: a causal hypothesis takes the strength of the correlation as its
\* confidence
CausationWithCorrelationConfidence(eda) ==
    IF eda.correlations = None THEN <<>>
    ELSE LET sp == eda.correlations[1].strong_positive
             plausible == SelectSeq(sp,
                 LAMBDA corr : IsPlausibleCausalRelationship(corr.var1, corr.var2))
         IN  [i \in 1..Len(plausible) |->
                Hypothesis(<<"causal", plausible[i].var1, plausible[i].var2>>,
                           <<plausible[i].var1, plausible[i].var2>>,
                           [v \in {plausible[i].var1, plausible[i].var2} |-> "numeric"],
                           "causal_inference",
                           IF plausible[i].correlation > 0 THEN "positive"
                           ELSE "negative",
                           "medium",
                           Min(Abs(plausible[i].correlation), 950))]

\* _generate_causation_hypotheses
GenerateCausationHypotheses(eda) ==
    IF eda.correlations = None THEN <<>>
    ELSE LET sp == eda.correlations[1].strong_positive
             plausible == SelectSeq(sp,
                 LAMBDA corr : IsPlausibleCausalRelationship(corr.var1, corr.var2))
         IN  [i \in 1..Len(plausible) |->
                Hypothesis(<<"causal", plausible[i].var1, plausible[i].var2>>,
                           <<plausible[i].var1, plausible[i].var2>>,
                           [v \in {plausible[i].var1, plausible[i].var2} |-> "numeric"],
                           "causal_inference",
                           IF plausible[i].correlation > 0 THEN "positive"
                           ELSE "negative",
                           "medium",
                           600)]

\* ------------------------------------------------------------------------
\* _filter_and_rank_hypotheses
\* ------------------------------------------------------------------------
\* confidence * testability_score, in units of 1 / (1000 * ScoreOne)
CombinedScore(h) == h.confidence * h.testability_score[1]

\* mutant: the thresholds count as reached
AssignPriorityInclusive(h) ==
    IF CombinedScore(h) >= 800 * ScoreOne THEN "high"
    ELSE IF CombinedScore(h) >= 600 * ScoreOne THEN "medium"
    ELSE "low"

\* _assign_priority
AssignPriority(h) ==
    IF CombinedScore(h) > 800 * ScoreOne THEN "high"
    ELSE IF CombinedScore(h) > 600 * ScoreOne THEN "medium"
    ELSE "low"

\* place of hs[i] after the stable sort(key=..., reverse=True)
RankOf(hs, i) ==
    1 + Cardinality({j \in 1..Len(hs) :
                        \/ CombinedScore(hs[j]) > CombinedScore(hs[i])
                        \/ (CombinedScore(hs[j]) = CombinedScore(hs[i]) /\ j < i)})

\* mutant: sort(key=...) without reverse=True
SortAscending(hs) ==
    [k \in 1..Len(hs) |-> hs[CHOOSE i \in 1..Len(hs) : RankOf(hs, Len(hs) + 1 - i) = Len(hs) + 1 - k]]

SortByCombinedScore(hs) ==
    [k \in 1..Len(hs) |-> hs[CHOOSE i \in 1..Len(hs) : RankOf(hs, i) = k]]

\* _filter_and_rank_hypotheses: [raised, value]
FilterAndRank(hs, d, min_conf, min_size) ==
    LET filtered == SelectSeq(hs, LAMBDA h : h.confidence >= min_conf)
        score(h) == CalculateTestabilityScore(d, h.variables, min_size)
    IN  IF \E i \in 1..Len(filtered) : score(filtered[i]).raised
        THEN [raised |-> TRUE, value |-> <<>>]
        ELSE LET scored == [i \in 1..Len(filtered) |->
                              [filtered[i] EXCEPT
                                  !.testability_score = Some(score(filtered[i]).value)]]
                 ranked == [i \in 1..Len(scored) |->
                              [scored[i] EXCEPT
                                  !.priority = Some(AssignPriority(scored[i]))]]
             IN  [raised |-> FALSE, value |-> SortByCombinedScore(ranked)]

\* ------------------------------------------------------------------------
\* generate_hypotheses
\* ------------------------------------------------------------------------
\* longest list under correlations.strong_positive
MaxCorrelations == 2

\* n rows without a null
Complete(n) == [nulls \in {{}} |-> n]

\* _create_mock_data: 10000 complete rows, six numeric and two categorical columns
MockColumns ==
    <<"marketing_spend", "sales_revenue", "customer_satisfaction",
      "product_category", "price", "sales_volume", "customer_age", "region">>

MockData ==
    [columns |-> MockColumns,
     numeric |-> SeqToSet(MockColumns) \ {"product_category", "region"},
     constant |-> {},
     rows |-> Complete(10000)]

\* _create_mock_eda_results (the sections the generators read)
MockEda ==
    [correlations |-> Some(
        [strong_positive |->
            <<[var1 |-> "marketing_spend", var2 |-> "sales_revenue", correlation |-> 780],
              [var1 |-> "customer_satisfaction", var2 |-> "sales_revenue",
               correlation |-> 650]>>,
         strong_negative |-> <<>>]),
     group_differences |-> Some(
        [significant |->
            <<[grouping_var |-> "product_category", outcome_var |-> "sales_revenue",
               effect_size |-> "medium"]>>])]

\* a dataset of 60 rows, sales_revenue null in 20 of them, price constant
SmallColumns ==
    <<"marketing_spend", "sales_revenue", "customer_satisfaction", "price",
      "product_category">>

SmallData ==
    [columns |-> SmallColumns,
     numeric |-> SeqToSet(SmallColumns) \ {"product_category"},
     constant |-> {"price"},
     rows |-> [nulls \in {{}, {"sales_revenue"}} |-> IF nulls = {} THEN 40 ELSE 20]]

\* a dataset of two columns and 200 complete rows
TwoColumns == <<"marketing_spend", "sales_revenue">>

TwoColumnData ==
    [columns |-> TwoColumns,
     numeric |-> SeqToSet(TwoColumns),
     constant |-> {},
     rows |-> Complete(200)]

\* a dataset of three columns and 200 complete rows
ThreeColumns == <<"marketing_spend", "sales_revenue", "region">>

ThreeColumnData ==
    [columns |-> ThreeColumns,
     numeric |-> SeqToSet(ThreeColumns) \ {"region"},
     constant |-> {},
     rows |-> Complete(200)]

\* entries of correlations.strong_positive and strong_negative; the last
\* one pairs a variable with itself (the diagonal of a correlation matrix)
PositiveEntries ==
    {[var1 |-> "marketing_spend", var2 |-> "sales_revenue", correlation |-> 780],
     [var1 |-> "customer_satisfaction", var2 |-> "sales_revenue", correlation |-> 650],
     [var1 |-> "price", var2 |-> "sales_volume", correlation |-> 990],
     [var1 |-> "sales_revenue", var2 |-> "sales_revenue", correlation |-> 1000]}

NegativeEntries ==
    {[var1 |-> "price", var2 |-> "sales_revenue", correlation |-> -850]}

SignificantDifferences ==
    {[grouping_var |-> "product_category", outcome_var |-> "sales_revenue",
      effect_size |-> "large"]}

SeqsUpTo(S, n) == UNION {[1..k -> S] : k \in 0..n}

\* exploratory summaries: each section present or absent
EdaSummaries ==
    [correlations :
        {None} \cup {Some([strong_positive |-> sp, strong_negative |-> sn]) :
                        sp \in SeqsUpTo(PositiveEntries, MaxCorrelations),
                        sn \in SeqsUpTo(NegativeEntries, 1)},
     group_differences :
        {None} \cup {Some([significant |-> sig]) :
                        sig \in SeqsUpTo(SignificantDifferences, 1)}]

FocusAreaChoices ==
    {{"correlation", "comparison", "prediction", "causation"},
     {"correlation"},
     {"comparison", "prediction", "causation"},
     {"correlation", "causation"}}

GenInit ==
    /\ ExecIdle
    /\ eda_results \in {None} \cup {Some(e) : e \in EdaSummaries}
    /\ data \in {None, Some(SmallData), Some(TwoColumnData), Some(ThreeColumnData)}
    /\ max_hypotheses \in {2, 10}
    /\ min_confidence \in {600, 800}
    /\ focus_areas \in FocusAreaChoices
    /\ min_sample_size = 30
    /\ generated = <<>>
    /\ returned = <<>>
    /\ hypothesis = <<>>
    /\ score_before = None
    /\ score_after = None
    /\ gpc = "ready"
    /\ NoColumns

\* the files a call may name: one that cannot be read and one that can
DataSources == {None, Some("missing.csv"), Some("small.csv")}

EdaFiles == {None, Some("missing.json"), Some("eda.json")}

\* pd.read_csv(data_source): None when it raises
ReadData(data_source) == IF data_source = "small.csv" THEN Some(SmallData) ELSE None

\* the exploratory summary in eda.json
FileEda ==
    [correlations |-> Some(
        [strong_positive |->
            <<[var1 |-> "marketing_spend", var2 |-> "sales_revenue", correlation |-> 780]>>,
         strong_negative |->
            <<[var1 |-> "price", var2 |-> "sales_revenue", correlation |-> -850]>>]),
     group_differences |-> None]

\* json.load(open(eda_file_path)): None when it raises
ReadEda(eda_file) == IF eda_file = "eda.json" THEN Some(FileEda) ELSE None

\* load_data: self.data after the call. It is assigned only when the file
\* was read; the except branch returns the mock data to the caller and
\* leaves self.data as it was
LoadData(self_data, data_source) ==
    IF ReadData(data_source) # None THEN ReadData(data_source) ELSE self_data

\* load_eda_results: self.eda_results after the call, likewise
LoadEdaResults(self_eda_results, eda_file) ==
    IF ReadEda(eda_file) # None THEN ReadEda(eda_file) ELSE self_eda_results

\* the families whose generator evaluates `... not in self.eda_results`
EdaFamilies == {"correlation", "comparison", "causation"}

\* generate_hypotheses(data_source, eda_file): a named file is loaded and the
\* return value of the loader is dropped; without a file name an attribute
\* that is None gets the mock data or the mock EDA results. The families of
\* focus_areas are generated, ranked and truncated. A generator that reads
\* self.eda_results while it is None raises TypeError, and so leaves the
\* call, like a KeyError of the scoring
GenerateHypothesesFrom(data_source, eda_file) ==
    /\ gpc = "ready"
    /\ LET d == IF data_source # None THEN LoadData(data, data_source[1])
                ELSE IF data = None THEN Some(MockData) ELSE data
           e == IF eda_file # None THEN LoadEdaResults(eda_results, eda_file[1])
                ELSE IF eda_results = None THEN Some(MockEda) ELSE eda_results
           prediction == IF "prediction" \in focus_areas
                         THEN GeneratePredictionHypotheses(d) ELSE <<>>
       IN  /\ data' = d
           /\ eda_results' = e
           /\ sources' = <<data_source, eda_file>>
           /\ IF e = None
              THEN IF focus_areas \cap EdaFamilies = {}
                   THEN LET ranked == FilterAndRank(prediction, d, min_confidence,
                                                    min_sample_size)
                        IN  /\ generated' = prediction
                            /\ gpc' = "done"
                            /\ returned' = Some(Take(ranked.value, max_hypotheses))
                   ELSE /\ generated' = IF focus_areas \cap {"correlation", "comparison"} = {}
                                        THEN prediction ELSE <<>>
                        /\ gpc' = "raised"
                        /\ returned' = <<>>
              ELSE LET hypotheses ==
                           (IF "correlation" \in focus_areas
                            THEN GenerateCorrelationHypotheses(e[1]) ELSE <<>>)
                           \o (IF "comparison" \in focus_areas
                               THEN GenerateComparisonHypotheses(e[1]) ELSE <<>>)
                           \o prediction
                           \o (IF "causation" \in focus_areas
                               THEN GenerateCausationHypotheses(e[1]) ELSE <<>>)
                       ranked == FilterAndRank(hypotheses, d, min_confidence,
                                               min_sample_size)
                   IN  /\ generated' = hypotheses
                       /\ IF ranked.raised
                          THEN /\ gpc' = "raised"
                               /\ returned' = <<>>
                          ELSE /\ gpc' = "done"
                               /\ returned' = Some(Take(ranked.value, max_hypotheses))
    /\ UNCHANGED <<execVars, numVars, library, runs, max_hypotheses, min_confidence,
                   focus_areas, min_sample_size, hypothesis, score_before, score_after>>

\* generate_hypotheses(): no file is named
GenerateHypotheses == GenerateHypothesesFrom(None, None)

GenNext == GenerateHypotheses

GenSpec == GenInit /\ [][GenNext]_vars

\* ------------------------------------------------------------------------
\* generate_hypotheses called with file names on a fresh generator
\* ------------------------------------------------------------------------
LoadFocusAreaChoices == FocusAreaChoices \cup {{"prediction"}, {"prediction", "causation"}}

LoadInit ==
    /\ ExecIdle
    /\ eda_results = None
    /\ data = None
    /\ max_hypotheses \in {2, 10}
    /\ min_confidence \in {600, 800}
    /\ focus_areas \in LoadFocusAreaChoices
    /\ min_sample_size = 30
    /\ generated = <<>>
    /\ returned = <<>>
    /\ hypothesis = <<>>
    /\ score_before = None
    /\ score_after = None
    /\ gpc = "ready"
    /\ NoColumns

GenerateHypothesesFromFiles ==
    \E data_source \in DataSources, eda_file \in EdaFiles :
        GenerateHypothesesFrom(data_source, eda_file)

LoadNext == GenerateHypothesesFromFiles

LoadSpec == LoadInit /\ [][LoadNext]_vars

\* ------------------------------------------------------------------------
\* _validate_single_hypothesis
\* ------------------------------------------------------------------------
\* self.power_threshold, in thousandths
power_threshold == 800

\* _estimate_correlation_power, in thousandths
EstimateCorrelationPower(n) ==
    IF n < 10 THEN 100
    ELSE IF n < 30 THEN 500
    ELSE IF n < 100 THEN 700
    ELSE 900

\* _estimate_anova_power, in thousandths
EstimateAnovaPower(n) ==
    IF n < 30 THEN 300
    ELSE IF n < 100 THEN 600
    ELSE 850

\* mutant: the assumptions count as violated until they are tested
AssumptionsUnchecked(h) ==
    [a \in {"independence", "normality", "linearity", "homoscedasticity"} |-> FALSE]

\* _check_basic_assumptions
CheckBasicAssumptions(h) ==
    [a \in {"independence", "normality", "linearity", "homoscedasticity"} |-> TRUE]

\* the feasibility score 1.0
FeasibilityOne == 12 * 1000

\* sum(d.values()) of a dict of booleans
CountTrue(d) == Cardinality({k \in DOMAIN d : d[k]})

\* (num / den) * (w / 10), in units of 1 / FeasibilityOne
Weighted(w, num, den) == (w * FeasibilityOne * num) \div (10 * den)

\* mutant: the four components weigh 0.25 each
FeasibilityEqualWeights(data_availability, sample_size_adequate, power, assumption_checks) ==
    IF DOMAIN data_availability = {} THEN [raised |-> TRUE, value |-> 0]
    ELSE [raised |-> FALSE,
          value |->
              (Weighted(10, CountTrue(data_availability),
                        Cardinality(DOMAIN data_availability))
               + Weighted(10, IF sample_size_adequate THEN 2 ELSE 1, 2)
               + Weighted(10, IF power = None THEN 700 ELSE power[1], 1000)
               + Weighted(10, CountTrue(assumption_checks),
                          Cardinality(DOMAIN assumption_checks))) \div 4]

\* _calculate_feasibility_score: [raised, value]; an empty data_availability
\* divides by len(...) = 0 (ZeroDivisionError)
CalculateFeasibilityScore(data_availability, sample_size_adequate, power, assumption_checks) ==
    IF DOMAIN data_availability = {} THEN [raised |-> TRUE, value |-> 0]
    ELSE [raised |-> FALSE,
          value |->
              Weighted(3, CountTrue(data_availability),
                       Cardinality(DOMAIN data_availability))
              + Weighted(3, IF sample_size_adequate THEN 2 ELSE 1, 2)
              + Weighted(2, IF power = None THEN 700 ELSE power[1], 1000)
              + Weighted(2, CountTrue(assumption_checks),
                         Cardinality(DOMAIN assumption_checks))]

RECURSIVE DictKeys(_)
\* the keys of a dict filled in the order of seq: first occurrences, in order
DictKeys(seq) ==
    IF seq = <<>> THEN <<>>
    ELSE LET front == DictKeys(SubSeq(seq, 1, Len(seq) - 1))
         IN  IF seq[Len(seq)] \in SeqToSet(front) THEN front
             ELSE Append(front, seq[Len(seq)])

\* _generate_validation_recommendations; each f-string is the tuple of its
\* fixed part and the values it formats
GenerateValidationRecommendations(h, data_availability, sample_size_adequate, power, min_size) ==
    LET missing_vars == SelectSeq(DictKeys(h.variables),
                                  LAMBDA var : ~data_availability[var])
    IN  (IF missing_vars # <<>>
         THEN <<<<"Collect data for missing variables", missing_vars>>>> ELSE <<>>)
        \o (IF ~sample_size_adequate
            THEN <<<<"Increase sample size to at least", min_size>>>> ELSE <<>>)
        \o (IF power # None /\ power[1] # 0 /\ power[1] < power_threshold
            THEN <<<<"Current power below threshold", power[1], power_threshold>>>>
            ELSE <<>>)
        \o (IF h.statistical_test = "causal_inference"
            THEN <<<<"Consider randomized experiment or natural experiment">>>>
            ELSE <<>>)
        \o <<<<"Validate statistical assumptions before testing">>,
             <<"Consider multiple comparison corrections">>>>

\* _validate_single_hypothesis: [raised, value]; with a dataset,
\* dropna(subset=hypothesis.variables) raises KeyError for a variable that is
\* no column
ValidateSingleHypothesis(d, h, min_size) ==
    LET data_availability ==
            [var \in SeqToSet(h.variables) |->
                IF d # None THEN var \in SeqToSet(d[1].columns) ELSE FALSE]
        available == IF d # None THEN CompleteRows(d[1], h.variables) ELSE 0
        sample_size_adequate == d # None /\ available >= min_size
        power ==
            IF d = None THEN None
            ELSE IF h.statistical_test = "pearson_correlation"
            THEN Some(EstimateCorrelationPower(available))
            ELSE IF h.statistical_test \in {"anova_one_way", "comparison"}
            THEN Some(EstimateAnovaPower(available))
            ELSE Some(IF sample_size_adequate THEN 800 ELSE 600)
        assumption_checks == CheckBasicAssumptions(h)
        feasibility_score ==
            CalculateFeasibilityScore(data_availability, sample_size_adequate,
                                      power, assumption_checks)
    IN  IF d # None /\ SeqToSet(h.variables) \ SeqToSet(d[1].columns) # {}
        THEN [raised |-> TRUE, value |-> <<>>]
        ELSE IF feasibility_score.raised
        THEN [raised |-> TRUE, value |-> <<>>]
        ELSE [raised |-> FALSE,
              value |->
                  [hypothesis_id |-> h.id,
                   is_testable |-> feasibility_score.value > (6 * FeasibilityOne) \div 10,
                   data_availability |-> data_availability,
                   statistical_power |-> power,
                   sample_size_adequacy |-> sample_size_adequate,
                   assumption_checks |-> assumption_checks,
                   feasibility_score |-> feasibility_score.value,
                   recommendations |->
                       GenerateValidationRecommendations(
                           h, data_availability, sample_size_adequate, power, min_size)]]

\* hypotheses of the four families
ValidationHypotheses ==
    {PositiveCorrelationHypothesis(e) : e \in PositiveEntries}
    \cup {NegativeCorrelationHypothesis(e) : e \in NegativeEntries}
    \cup SeqToSet(GenerateComparisonHypotheses(MockEda))
    \cup SeqToSet(GeneratePredictionHypotheses(Some(SmallData)))
    \cup SeqToSet(GenerateCausationHypotheses(MockEda))

ValidationDatasets == ScoreDatasets \cup {MockData, SmallData, TwoColumnData}

ValidateInit ==
    /\ ExecIdle
    /\ eda_results = None
    /\ data \in {None} \cup {Some(d) : d \in ValidationDatasets}
    /\ max_hypotheses = 10
    /\ min_confidence = 600
    /\ focus_areas = {}
    /\ min_sample_size \in {30, 40}
    /\ generated = <<>>
    /\ returned = <<>>
    /\ hypothesis \in ValidationHypotheses
    /\ score_before = None
    /\ score_after = None
    /\ gpc = "unvalidated"
    /\ NoColumns

\* a call of _validate_single_hypothesis
ValidateHypothesis ==
    /\ gpc = "unvalidated"
    /\ validation' = Some(ValidateSingleHypothesis(data, hypothesis, min_sample_size))
    /\ gpc' = "validated"
    /\ UNCHANGED <<execVars, eda_results, data, max_hypotheses, min_confidence, focus_areas,
                   min_sample_size, generated, returned, hypothesis, score_before,
                   score_after, column1, column2, measured, callVars>>

ValidateNext == ValidateHypothesis

ValidateSpec == ValidateInit /\ [][ValidateNext]_vars

\* ------------------------------------------------------------------------
\* The numeric procedures of StatisticalTester on two columns.
\* A column is a list of cells, None for a null and Some(v) for the value v.
\* A float is a record: kind "finite" with its sign and its square num / den,
\* kind "inf" with its sign, or kind "nan".
\* ------------------------------------------------------------------------
RECURSIVE GCD(_, _)
GCD(a, b) == IF b = 0 THEN a ELSE GCD(b, a % b)

\* the fraction num / den is kept in lowest terms
Finite(sign, num, den) ==
    [kind |-> "finite", sign |-> IF num = 0 THEN 0 ELSE sign,
     num |-> num \div GCD(num, den), den |-> den \div GCD(num, den)]

Inf(sign) == [kind |-> "inf", sign |-> sign, num |-> 0, den |-> 0]

NaN == [kind |-> "nan", sign |-> 0, num |-> 0, den |-> 0]

\* a value scipy computes, not followed further
LibraryValue == [kind |-> "library", sign |-> 0, num |-> 0, den |-> 0]

Sign(x) == IF x > 0 THEN 1 ELSE IF x < 0 THEN -1 ELSE 0

\* Series.dropna(), as the list of the values
DropNa(col) ==
    LET kept == SelectSeq(col, LAMBDA cell : cell # None)
    IN  [i \in 1..Len(kept) |-> kept[i][1]]

RECURSIVE SumOf(_)
SumOf(xs) == IF xs = <<>> THEN 0 ELSE xs[1] + SumOf(Tail(xs))

\* n * (n - 1) * var(xs) = n * sum(x^2) - sum(x)^2
SumSquares(xs) ==
    Len(xs) * SumOf([i \in 1..Len(xs) |-> xs[i] * xs[i]]) - SumOf(xs) * SumOf(xs)

\* (mean1 - mean2) / sqrt(((N1 - 1) * var1 + (N2 - 1) * var2) / (N1 + N2 - 2))
\* for the values xs and ys and the lengths N1 and N2 the code weighs them
\* with; var() of fewer than two values is nan, x / 0.0 is inf or nan
StandardizedDifference(xs, ys, N1, N2) ==
    LET n1 == Len(xs)
        n2 == Len(ys)
        diff == SumOf(xs) * n2 - SumOf(ys) * n1
        \* n1 (n1 - 1) n2 (n2 - 1) * ((N1 - 1) var1 + (N2 - 1) var2)
        weighted == (N1 - 1) * SumSquares(xs) * n2 * (n2 - 1)
                    + (N2 - 1) * SumSquares(ys) * n1 * (n1 - 1)
    IN  IF n1 < 2 \/ n2 < 2 \/ N1 + N2 - 2 = 0 THEN NaN
        ELSE IF weighted = 0 THEN (IF diff = 0 THEN NaN ELSE Inf(Sign(diff)))
        ELSE Finite(Sign(diff),
                    diff * diff * (N1 + N2 - 2) * (n1 - 1) * (n2 - 1),
                    n1 * n2 * weighted)

\* x * (num / den) for a float x and a rational factor
Scaled(x, num, den) ==
    IF x.kind = "nan" THEN NaN
    ELSE IF x.kind = "inf"
    THEN (IF num = 0 THEN NaN ELSE Inf(x.sign * Sign(num) * Sign(den)))
    ELSE Finite(x.sign * Sign(num) * Sign(den), x.num * num * num, x.den * den * den)

\* a test_results entry of the numeric procedures
NumericResult(test, statistic, effect_size, confidence_interval) ==
    [test |-> test, statistic |-> statistic, effect_size |-> effect_size,
     confidence_interval |-> confidence_interval]

\* calculate_cohens_d
calculate_cohens_d(group1, group2) ==
    LET clean1 == DropNa(group1)
        clean2 == DropNa(group2)
        d == StandardizedDifference(clean1, clean2, Len(clean1), Len(clean2))
    IN  [raised |-> FALSE, value |-> NumericResult("cohens_d", d, d, None)]

\* mutant: g = d, without the bias correction
HedgesWithoutCorrection(group1, group2) ==
    LET clean1 == DropNa(group1)
        clean2 == DropNa(group2)
        d == StandardizedDifference(clean1, clean2, Len(clean1), Len(clean2))
    IN  [raised |-> FALSE, value |-> NumericResult("hedges_g", d, d, None)]

\* calculate_hedges_g
calculate_hedges_g(group1, group2) ==
    LET clean1 == DropNa(group1)
        clean2 == DropNa(group2)
        n1 == Len(clean1)
        n2 == Len(clean2)
        d == StandardizedDifference(clean1, clean2, n1, n2)
        \* 1 - 3 / (4 * (n1 + n2 - 2) - 1)
        g == Scaled(d, 4 * (n1 + n2 - 2) - 4, 4 * (n1 + n2 - 2) - 1)
    IN  [raised |-> FALSE, value |-> NumericResult("hedges_g", g, g, None)]

\* test_independent_t_test: the statistic is scipy's; the effect size
\* weighs the variances of the non-null values with len(group), nulls included
test_independent_t_test(group1, group2) ==
    [raised |-> FALSE,
     value |-> NumericResult("t_test_independent",
                             LibraryValue,
                             StandardizedDifference(DropNa(group1), DropNa(group2),
                                                    Len(group1), Len(group2)),
                             None)]

\* before - after: null where either cell is null
Differences(before, after) ==
    DropNa([i \in 1..Len(before) |->
               IF before[i] = None \/ after[i] = None THEN None
               ELSE Some(before[i][1] - after[i][1])])

\* test_paired_t_test: ttest_rel raises ValueError for arrays of unequal
\* length; the effect size is diff.mean() / diff.std()
test_paired_t_test(before, after) ==
    LET diff == Differences(before, after)
        m == Len(diff)
        effect_size ==
            IF m < 2 THEN NaN
            ELSE IF SumSquares(diff) = 0
            THEN (IF SumOf(diff) = 0 THEN NaN ELSE Inf(Sign(SumOf(diff))))
            ELSE Finite(Sign(SumOf(diff)),
                        SumOf(diff) * SumOf(diff) * (m - 1),
                        m * SumSquares(diff))
    IN  IF Len(DropNa(before)) # Len(DropNa(after))
        THEN [raised |-> TRUE, value |-> <<>>]
        ELSE [raised |-> FALSE,
              value |-> NumericResult("t_test_paired", LibraryValue, effect_size, None)]

\* a bound of the Fisher interval, by the kind of float it is:
\* (np.exp(2 * z) - 1) / (np.exp(2 * z) + 1) is nan for z = inf or nan and
\* -1 for z = -inf
IntervalBound(z) == IF z \in {"nan", "inf"} THEN "nan" ELSE "finite"

\* test_pearson_correlation: pearsonr raises ValueError for fewer than two
\* rows and gives nan for a constant column
test_pearson_correlation(x, y) ==
    LET rows == {i \in 1..Len(x) : x[i] # None /\ y[i] # None}
        xs == DropNa([i \in 1..Len(x) |-> IF i \in rows THEN x[i] ELSE None])
        ys == DropNa([i \in 1..Len(y) |-> IF i \in rows THEN y[i] ELSE None])
        n == Len(xs)
        covariance == n * SumOf([i \in 1..n |-> xs[i] * ys[i]]) - SumOf(xs) * SumOf(ys)
        stat ==
            IF SumSquares(xs) = 0 \/ SumSquares(ys) = 0 THEN NaN
            ELSE Finite(Sign(covariance), covariance * covariance,
                        SumSquares(xs) * SumSquares(ys))
        \* z_r = 0.5 * np.log((1 + stat) / (1 - stat))
        z_r == IF stat.kind = "nan" THEN "nan"
               ELSE IF stat.num = stat.den THEN (IF stat.sign > 0 THEN "inf" ELSE "-inf")
               ELSE "finite"
        \* se = 1 / np.sqrt(n - 3)
        se == IF n > 3 THEN "finite" ELSE IF n = 3 THEN "inf" ELSE "nan"
        z_lower == IF z_r = "nan" \/ se = "nan" THEN "nan"
                   ELSE IF se = "inf" THEN (IF z_r = "inf" THEN "nan" ELSE "-inf")
                   ELSE z_r
        z_upper == IF z_r = "nan" \/ se = "nan" THEN "nan"
                   ELSE IF se = "inf" THEN (IF z_r = "-inf" THEN "nan" ELSE "inf")
                   ELSE z_r
    IN  IF n < 2 THEN [raised |-> TRUE, value |-> <<>>]
        ELSE [raised |-> FALSE,
              value |-> NumericResult("pearson_correlation", stat, stat,
                                      Some([lower |-> IntervalBound(z_lower),
                                            upper |-> IntervalBound(z_upper)]))]

NumericTests ==
    {"cohens_d", "hedges_g", "t_test_independent", "t_test_paired", "pearson_correlation"}

\* the procedure _execute_single_test dispatches to for two variables
NumericProcedure(test, group1, group2) ==
    CASE test = "cohens_d" -> calculate_cohens_d(group1, group2)
      [] test = "hedges_g" -> calculate_hedges_g(group1, group2)
      [] test = "t_test_independent" -> test_independent_t_test(group1, group2)
      [] test = "t_test_paired" -> test_paired_t_test(group1, group2)
      [] test = "pearson_correlation" -> test_pearson_correlation(group1, group2)

\* most rows of the two columns
MaxSampleSize == 4

CellValues == {0, 1}

Cells == {None} \cup {Some(v) : v \in CellValues}

NumericInit ==
    /\ ExecIdle
    /\ GeneratorIdle
    /\ validation = None
    /\ \E n \in 0..MaxSampleSize :
          /\ column1 \in [1..n -> Cells]
          /\ column2 \in [1..n -> Cells]
    /\ measured = <<>>
    /\ library = <<>>
    /\ runs = <<>>
    /\ sources = <<>>

\* the batches run on the two columns: each test alone, Cohen's d followed
\* by Hedges' g, and the independent t-test followed by Cohen's d
NumericBatches ==
    {<<test>> : test \in NumericTests}
    \cup {<<"cohens_d", "hedges_g">>, <<"t_test_independent", "cohens_d">>}

RECURSIVE NumericResults(_, _, _)
\* the list `results` of execute_test_suite after the loop: the results of
\* the tests that did not raise, in order
NumericResults(batch, group1, group2) ==
    IF batch = <<>> THEN <<>>
    ELSE LET result == NumericProcedure(batch[1], group1, group2)
         IN  (IF result.raised THEN <<>> ELSE <<result.value>>)
             \o NumericResults(Tail(batch), group1, group2)

\* execute_test_suite(data, [{'test': t, 'variables': [c1, c2]} for t in batch])
RunNumericBatch ==
    /\ measured = None
    /\ \E batch \in NumericBatches :
          measured' = Some([tests |-> batch,
                            test_results |-> NumericResults(batch, column1, column2)])
    /\ UNCHANGED <<execVars, genVars, validation, column1, column2, callVars>>

NumericNext == RunNumericBatch

NumericSpec == NumericInit /\ [][NumericNext]_vars

\* ========================================================================
\* Properties of generate_hypotheses (specification GenSpec)
\* ========================================================================
\* the entries of correlations.strong_positive, then strong_negative
StrongEntries(eda) ==
    IF eda.correlations = None THEN <<>>
    ELSE eda.correlations[1].strong_positive \o eda.correlations[1].strong_negative

IsPearson(h) == h.statistical_test = "pearson_correlation"

\* h is the correlation hypothesis of the pair of corr
MatchesEntry(h, corr) ==
    /\ h.variables = <<corr.var1, corr.var2>>
    /\ IsPearson(h)
    /\ h.confidence = Min(Abs(corr.correlation), 950)

NumMatching(hs, corr) == Cardinality({i \in 1..Len(hs) : MatchesEntry(hs[i], corr)})

\* C9 as stated: the list generate_hypotheses returns holds exactly one
\* pearson_correlation hypothesis of confidence min(|r|, 0.95) for every
\* pair with |r| >= 0.7 of the exploratory summary.
C9_OnePerStrongPair ==
    gpc = "done" =>
        \A i \in 1..Len(StrongEntries(eda_results[1])) :
            LET corr == StrongEntries(eda_results[1])[i]
            IN  Abs(corr.correlation) >= 700 => NumMatching(returned[1], corr) = 1

\* C9 amended: _generate_correlation_hypotheses emits, in listing order,
\* exactly one pearson_correlation hypothesis of confidence min(|r|, 0.95)
\* per entry of strong_positive and strong_negative (whatever its |r|; a
\* pair listed twice gets two); generate_hypotheses takes them up only when
\* 'correlation' is in focus_areas, returns only those of confidence >=
\* min_confidence, at most max_hypotheses hypotheses in all, and returns
\* every such candidate when no more than max_hypotheses pass the filter.
\* The call raises, and returns nothing, exactly when a hypothesis that
\* passes the filter names a variable that is no column of the dataset.
C9_OnePerListedEntry ==
    gpc \in {"done", "raised"} =>
        LET entries == StrongEntries(eda_results[1])
            candidates == SelectSeq(generated, IsPearson)
            passing == SelectSeq(generated, LAMBDA h : h.confidence >= min_confidence)
        IN  /\ Len(GenerateCorrelationHypotheses(eda_results[1])) = Len(entries)
            /\ gpc = "raised" <=>
                  \E i \in 1..Len(passing) :
                      SeqToSet(passing[i].variables) \ SeqToSet(data[1].columns) # {}
            /\ "correlation" \notin focus_areas => candidates = <<>>
            /\ "correlation" \in focus_areas =>
                  /\ Len(candidates) = Len(entries)
                  /\ \A i \in 1..Len(entries) : MatchesEntry(candidates[i], entries[i])
            /\ gpc = "done" =>
                  /\ Len(returned[1]) <= max_hypotheses
                  /\ \A i \in 1..Len(returned[1]) :
                        IsPearson(returned[1][i]) =>
                            /\ returned[1][i].confidence >= min_confidence
                            /\ \E j \in 1..Len(entries) :
                                  MatchesEntry(returned[1][i], entries[j])
                  /\ ("correlation" \in focus_areas /\ Len(passing) <= max_hypotheses) =>
                        \A i \in 1..Len(entries) :
                            Min(Abs(entries[i].correlation), 950) >= min_confidence =>
                                NumMatching(returned[1], entries[i])
                                    = NumMatching(candidates, entries[i])

\* the pair with r = 0.99 is returned with confidence 0.95, the pair with
\* r = 0.78 with confidence 0.78
C9_Witness ==
    /\ gpc = "done"
    /\ "correlation" \in focus_areas
    /\ Len(StrongEntries(eda_results[1])) = 2
    /\ \E i, j \in 1..Len(returned[1]) :
          /\ IsPearson(returned[1][i])
          /\ returned[1][i].confidence = 950
          /\ returned[1][i].variables = <<"price", "sales_volume">>
          /\ IsPearson(returned[1][j])
          /\ returned[1][j].confidence = 780

\* confidence * testability_score of a hypothesis before it is scored
ProductOf(g) ==
    g.confidence * CalculateTestabilityScore(data, g.variables, min_sample_size).value

NumWithId(hs, id) == Cardinality({i \in 1..Len(hs) : hs[i].id = id})

\* C13: the returned list holds only hypotheses of confidence >=
\* min_confidence, is sorted by confidence * testability_score in
\* non-increasing order, has at most max_hypotheses elements, and no
\* hypothesis that passed the filter and was cut off has a greater product
\* than a returned one.
C13_RankedAndTruncated ==
    gpc = "done" =>
        LET ret == returned[1]
            passing == SelectSeq(generated, LAMBDA g : g.confidence >= min_confidence)
        IN  /\ \A i \in 1..Len(ret) : ret[i].confidence >= min_confidence
            /\ \A i \in 1..Len(ret) - 1 : CombinedScore(ret[i]) >= CombinedScore(ret[i + 1])
            /\ Len(ret) <= max_hypotheses
            /\ \A i \in 1..Len(passing) :
                  NumWithId(ret, passing[i].id) < NumWithId(passing, passing[i].id) =>
                      \A j \in 1..Len(ret) : ProductOf(passing[i]) <= CombinedScore(ret[j])

\* more hypotheses pass the filter than are returned, and the returned ones
\* differ in their product
C13_Witness ==
    /\ gpc = "done"
    /\ Len(SelectSeq(generated, LAMBDA g : g.confidence >= min_confidence)) > max_hypotheses
    /\ Len(returned[1]) = max_hypotheses
    /\ CombinedScore(returned[1][1]) > CombinedScore(returned[1][2])
    /\ \E i \in 1..Len(generated) :
          /\ generated[i].confidence >= min_confidence
          /\ NumWithId(returned[1], generated[i].id) = 0
          /\ ProductOf(generated[i]) < CombinedScore(returned[1][2])

\* C14: every returned hypothesis has testability_score and priority set,
\* and the priority is 'high' exactly when confidence * testability_score
\* > 0.8, 'medium' exactly when 0.6 < product <= 0.8, 'low' otherwise.
C14_PriorityByProduct ==
    gpc = "done" =>
        \A i \in 1..Len(returned[1]) :
            LET h == returned[1][i]
            IN  /\ h.testability_score # None
                /\ h.priority # None
                /\ h.priority[1] = "high"
                      <=> h.confidence * h.testability_score[1] > 800 * ScoreOne
                /\ h.priority[1] = "medium"
                      <=> /\ h.confidence * h.testability_score[1] > 600 * ScoreOne
                          /\ h.confidence * h.testability_score[1] <= 800 * ScoreOne
                /\ h.priority[1] = "low"
                      <=> h.confidence * h.testability_score[1] <= 600 * ScoreOne

\* one list with a high, a medium (product exactly 0.8) and a low (product
\* exactly 0.6) hypothesis
C14_Witness ==
    /\ gpc = "done"
    /\ \E i, j, k \in 1..Len(returned[1]) :
          /\ returned[1][i].priority = Some("high")
          /\ returned[1][j].priority = Some("medium")
          /\ returned[1][j].confidence * returned[1][j].testability_score[1] = 800 * ScoreOne
          /\ returned[1][k].priority = Some("low")
          /\ returned[1][k].confidence * returned[1][k].testability_score[1] = 600 * ScoreOne

\* C17 as stated: every hypothesis generate_hypotheses returns names a
\* statistical_test of the dispatch table of _execute_single_test and has a
\* variable list that meets that helper's variable-count check, so that the
\* Executor never drops it as an unknown test.
C17_ReturnedHypothesesExecutable ==
    gpc = "done" =>
        \A i \in 1..Len(returned[1]) :
            /\ returned[1][i].statistical_test \in test_methods
            /\ VariableCountOk(returned[1][i].statistical_test,
                               Len(returned[1][i].variables))
            /\ ExecuteSingleTest([test |-> returned[1][i].statistical_test,
                                  variables |-> returned[1][i].variables],
                                 [lib_ok |-> TRUE, statistic |-> 3, p |-> 12, exceeds |-> 0])
                  # ReturnedNone

\* C20 as stated: every hypothesis the Generator creates has a non-empty
\* variables list of the length of variable_types, with one type entry for
\* every listed variable, also for a summary that pairs a variable with
\* itself.
C20_VariablesMatchTypes ==
    gpc \in {"done", "raised"} =>
        \A i \in 1..Len(generated) :
            /\ Len(generated[i].variables) > 0
            /\ Len(generated[i].variables) = Cardinality(DOMAIN generated[i].variable_types)
            /\ \A k \in 1..Len(generated[i].variables) :
                  generated[i].variables[k] \in DOMAIN generated[i].variable_types

\* the number of variables of h that are no column of the dataset d
NumMissing(h, d) ==
    Cardinality({i \in 1..Len(h.variables) : h.variables[i] \notin SeqToSet(d.columns)})

RECURSIVE PenaltyOf(_)
\* 0.3 ^ k, in units of 1 / ScoreOne
PenaltyOf(k) == IF k = 0 THEN ScoreOne ELSE (3 * PenaltyOf(k - 1)) \div 10

\* C12 as stated: a hypothesis with a variable that is no column of the
\* dataset is penalised, not eliminated: generate_hypotheses returns, every
\* hypothesis that passes the confidence filter is scored (at most 0.3 per
\* missing variable) and ranked, and none fails the scoring.
C12_MissingVariablePenalised ==
    gpc \in {"done", "raised"} =>
        /\ gpc = "done"
        /\ \A i \in 1..Len(generated) :
              generated[i].confidence >= min_confidence =>
                  \E j \in 1..Len(FilterAndRank(generated, data, min_confidence,
                                                min_sample_size).value) :
                      LET h == FilterAndRank(generated, data, min_confidence,
                                             min_sample_size).value[j]
                      IN  /\ h.id = generated[i].id
                          /\ h.testability_score # None
                          /\ h.testability_score[1] <= PenaltyOf(NumMissing(h, data[1]))

\* the tests named by the hypotheses of a list, and how many name a test
TestsOf(hs) == {hs[i].statistical_test : i \in 1..Len(hs)}

NumWithTest(hs, test) == Cardinality({i \in 1..Len(hs) : hs[i].statistical_test = test})

\* C21: after generate_hypotheses, an exploratory summary without a
\* correlations section has given no correlation and no causal hypothesis,
\* one without a group_differences section no comparison hypothesis, and no
\* hypothesis belongs to a family that focus_areas does not list; the
\* families whose section is present and listed are generated all the same:
\* one comparison hypothesis per significant difference and one prediction
\* hypothesis per varying numeric column of a dataset of three or more
\* columns.
C21_AbsentSectionSuppressesFamily ==
    gpc \in {"done", "raised"} =>
        LET e == eda_results[1]
            d == data[1]
        IN  /\ e.correlations = None =>
                  TestsOf(generated) \cap {"pearson_correlation", "causal_inference"} = {}
            /\ e.group_differences = None => "anova_one_way" \notin TestsOf(generated)
            /\ "correlation" \notin focus_areas =>
                  "pearson_correlation" \notin TestsOf(generated)
            /\ "comparison" \notin focus_areas => "anova_one_way" \notin TestsOf(generated)
            /\ "prediction" \notin focus_areas =>
                  "multiple_regression" \notin TestsOf(generated)
            /\ "causation" \notin focus_areas =>
                  "causal_inference" \notin TestsOf(generated)
            /\ ("comparison" \in focus_areas /\ e.group_differences # None) =>
                  NumWithTest(generated, "anova_one_way")
                      = Len(e.group_differences[1].significant)
            /\ ("prediction" \in focus_areas /\ Len(d.columns) >= 3) =>
                  NumWithTest(generated, "multiple_regression")
                      = Cardinality(d.numeric \ d.constant)
            /\ \A i \in 1..Len(returned) : TestsOf(returned[i]) \subseteq TestsOf(generated)

\* a summary without correlations and with one significant difference has
\* given a comparison and prediction hypotheses, and nothing else
C21_Witness ==
    /\ gpc = "done"
    /\ eda_results[1].correlations = None
    /\ eda_results[1].group_differences # None
    /\ focus_areas = {"correlation", "comparison", "prediction", "causation"}
    /\ TestsOf(generated) = {"anova_one_way", "multiple_regression"}
    /\ "anova_one_way" \in TestsOf(returned[1])

\* the allow-list pair a causal hypothesis is made from, in either order
InAllowList(h) ==
    \/ <<Lower(h.variables[1]), Lower(h.variables[2])>> \in causal_patterns
    \/ <<Lower(h.variables[2]), Lower(h.variables[1])>> \in causal_patterns

\* C22: every causal hypothesis generate_hypotheses creates names two
\* variables whose lower-cased names are a pair of the allow-list, in
\* either order, and has confidence exactly 0.6; so has every causal
\* hypothesis it returns.
C22_CausalOnlyForAllowList ==
    gpc \in {"done", "raised"} =>
        /\ \A i \in 1..Len(generated) :
              generated[i].statistical_test = "causal_inference" =>
                  /\ Len(generated[i].variables) = 2
                  /\ InAllowList(generated[i])
                  /\ generated[i].confidence = 600
        /\ \A k \in 1..Len(returned) : \A i \in 1..Len(returned[k]) :
              returned[k][i].statistical_test = "causal_inference" =>
                  InAllowList(returned[k][i]) /\ returned[k][i].confidence = 600

\* the summary lists price-sales_volume and a pair outside the allow-list
\* as strong positive correlations: the returned list holds a causal
\* hypothesis of confidence 0.6 for the first and none for the second
C22_Witness ==
    /\ gpc = "done"
    /\ eda_results[1].correlations # None
    /\ Len(eda_results[1].correlations[1].strong_positive) = 2
    /\ eda_results[1].correlations[1].strong_positive[1].var1 = "customer_satisfaction"
    /\ eda_results[1].correlations[1].strong_positive[2].var1 = "price"
    /\ NumWithTest(returned[1], "causal_inference") = 1
    /\ \E i \in 1..Len(returned[1]) :
          /\ returned[1][i].statistical_test = "causal_inference"
          /\ returned[1][i].variables = <<"price", "sales_volume">>
          /\ returned[1][i].confidence = 600

\* the prediction hypotheses of a list whose outcome is the column c
PredictionsOf(hs, c) ==
    {i \in 1..Len(hs) :
        hs[i].statistical_test = "multiple_regression" /\ hs[i].variables[1] = c}

\* hs holds exactly one prediction hypothesis for the outcome c: confidence
\* 0.65, c followed by one to three other columns of d
OnePredictionFor(hs, d, c) ==
    /\ Cardinality(PredictionsOf(hs, c)) = 1
    /\ \A i \in PredictionsOf(hs, c) :
          /\ hs[i].confidence = 650
          /\ Len(hs[i].variables) \in 2..4
          /\ \A k \in 2..Len(hs[i].variables) :
                /\ hs[i].variables[k] # c
                /\ hs[i].variables[k] \in SeqToSet(d.columns)

\* C23 as stated: for every dataset, whatever its number of columns, every
\* numeric column of nonzero variance gets one prediction hypothesis
\* (multiple_regression, confidence 0.65) whose variables are the column and
\* up to three other columns.
C23_PredictionForEveryDataset ==
    (gpc \in {"done", "raised"} /\ "prediction" \in focus_areas) =>
        \A c \in data[1].numeric \ data[1].constant :
            OnePredictionFor(generated, data[1], c)

\* C23 amended: the same for every dataset of at least three columns, the
\* predictors being the first min(3, columns - 1) other columns; a dataset
\* of fewer columns, a constant column and a categorical column get no
\* prediction hypothesis.
C23_PredictionWithTwoPredictors ==
    (gpc \in {"done", "raised"} /\ "prediction" \in focus_areas) =>
        LET d == data[1]
        IN  /\ Len(d.columns) >= 3 =>
                  \A c \in d.numeric \ d.constant :
                      /\ OnePredictionFor(generated, d, c)
                      /\ \A i \in PredictionsOf(generated, c) :
                            Len(generated[i].variables) = 1 + Min(3, Len(d.columns) - 1)
            /\ Len(d.columns) < 3 => NumWithTest(generated, "multiple_regression") = 0
            /\ \A c \in SeqToSet(d.columns) \ (d.numeric \ d.constant) :
                  PredictionsOf(generated, c) = {}

\* the five-column dataset whose price is constant: three prediction
\* hypotheses, the one of marketing_spend with the three columns after it
C23_Witness ==
    /\ gpc = "done"
    /\ data = Some(SmallData)
    /\ "prediction" \in focus_areas
    /\ NumWithTest(generated, "multiple_regression") = 3
    /\ \E i \in 1..Len(generated) :
          /\ generated[i].statistical_test = "multiple_regression"
          /\ generated[i].variables
                = <<"marketing_spend", "sales_revenue", "customer_satisfaction", "price">>
          /\ generated[i].confidence = 650

\* C27: in every list generate_hypotheses returns, no causal, prediction or
\* comparison hypothesis has priority 'high', and every causal hypothesis
\* has priority 'low'.
C27_PriorityBoundedByFamily ==
    gpc = "done" =>
        \A i \in 1..Len(returned[1]) :
            LET h == returned[1][i]
            IN  /\ h.statistical_test
                      \in {"causal_inference", "multiple_regression", "anova_one_way"}
                      => h.priority # Some("high")
                /\ h.statistical_test = "causal_inference" => h.priority = Some("low")

\* a returned list with a comparison hypothesis of confidence 0.8 that is
\* scored 1.0 and ranked 'medium', and a causal hypothesis ranked 'low'
C27_Witness ==
    /\ gpc = "done"
    /\ \E i \in 1..Len(returned[1]) :
          /\ returned[1][i].statistical_test = "anova_one_way"
          /\ returned[1][i].confidence = 800
          /\ returned[1][i].testability_score = Some(ScoreOne)
          /\ returned[1][i].priority = Some("medium")
    /\ \E i \in 1..Len(returned[1]) :
          /\ returned[1][i].statistical_test = "causal_inference"
          /\ returned[1][i].priority = Some("low")

\* ========================================================================
\* Properties of generate_hypotheses called with file names (specification
\* LoadSpec)
\* ========================================================================
DataLoadFailed == sources[1] # None /\ ReadData(sources[1][1]) = None

EdaLoadFailed == sources[2] # None /\ ReadEda(sources[2][1]) = None

\* C28 as stated: a call of generate_hypotheses on a fresh generator returns
\* a ranked list and leaves eda_results and data set, also when the EDA
\* file or the data source it names cannot be read; the mock EDA results,
\* respectively the mock dataset, are then the ones it has used.
C28_FailedLoadFallsBackToMock ==
    sources # <<>> =>
        /\ gpc = "done"
        /\ data # None
        /\ eda_results # None
        /\ DataLoadFailed => data = Some(MockData)
        /\ EdaLoadFailed => eda_results = Some(MockEda)

\* ========================================================================
\* Properties of _calculate_testability_score (specification ScoreSpec)
\* ========================================================================
\* C10: adding rows that are complete in all variables of the hypothesis
\* never decreases the value _calculate_testability_score returns (and
\* never makes a call that returned raise).
C10_TestabilityMonotonic ==
    gpc = "rescored" =>
        /\ score_after[1].raised = score_before[1].raised
        /\ score_after[1].value >= score_before[1].value

\* rows were added and the score rose
C10_Witness ==
    /\ gpc = "rescored"
    /\ ~score_before[1].raised
    /\ score_after[1].value > score_before[1].value
    /\ score_after[1].value < ScoreOne

\* the multiplier of one available variable, in tenths
MissingRatioMultiplier(var) ==
    IF 10 * NullCount(data[1], var) > 3 * NumRows(data[1]) THEN 7
    ELSE IF 10 * NullCount(data[1], var) > NumRows(data[1]) THEN 9
    ELSE 10

RECURSIVE MultiplierProduct(_)
\* the product of the multipliers of hypothesis[1..n], in units of 10 ^ -n
MultiplierProduct(n) ==
    IF n = 0 THEN 1 ELSE MultiplierProduct(n - 1) * MissingRatioMultiplier(hypothesis[n])

SampleMultiplier ==
    IF CompleteRows(data[1], hypothesis) < min_sample_size THEN 5
    ELSE IF CompleteRows(data[1], hypothesis) < 2 * min_sample_size THEN 8
    ELSE 10

\* min(1.0, product of the multipliers), for the bonus multiplier b
ExpectedScore(b) ==
    Min(ScoreOne,
        ((((ScoreOne \div (10 ^ Len(hypothesis))) * MultiplierProduct(Len(hypothesis))
                * SampleMultiplier) \div 10) * b) \div 10)

AllVariablesExist ==
    data # None /\ SeqToSet(hypothesis) \subseteq SeqToSet(data[1].columns)

\* C16 as stated: with all variables in the dataset the score is min(1.0,
\* product), with 0.7 / 0.9 per variable by its missing ratio, 0.5 / 0.8 by
\* the complete rows, and 1.1 only for a two-variable hypothesis with more
\* than 100 complete rows; the result is in (0, 1].
C16_BonusForTwoVariablesOnly ==
    (gpc = "rescored" /\ AllVariablesExist) =>
        /\ ~score_after[1].raised
        /\ score_after[1].value
              = ExpectedScore(IF Len(hypothesis) = 2
                                 /\ CompleteRows(data[1], hypothesis) > 100
                              THEN 11 ELSE 10)
        /\ score_after[1].value > 0
        /\ score_after[1].value <= ScoreOne

\* C16 amended: as stated, but the 1.1 multiplier goes to every hypothesis
\* of at most two variables (one variable included) with more than 100
\* complete rows.
C16_BonusUpToTwoVariables ==
    (gpc = "rescored" /\ AllVariablesExist) =>
        /\ ~score_after[1].raised
        /\ score_after[1].value
              = ExpectedScore(IF Len(hypothesis) <= 2
                                 /\ CompleteRows(data[1], hypothesis) > 100
                              THEN 11 ELSE 10)
        /\ score_after[1].value > 0
        /\ score_after[1].value <= ScoreOne

\* a one-variable hypothesis with a missing ratio above 0.1 and more than
\* 100 complete rows scores 0.9 * 1.1 = 0.99
C16_Witness ==
    /\ gpc = "rescored"
    /\ AllVariablesExist
    /\ Len(hypothesis) = 1
    /\ CompleteRows(data[1], hypothesis) > 100
    /\ MissingRatioMultiplier(hypothesis[1]) = 9
    /\ score_after[1].value = (99 * ScoreOne) \div 100

\* ========================================================================
\* Properties of execute_test_suite (specification Spec)
\* ========================================================================
\* the TestResult dicts of the calls that returned one, in input order
SuccessfulResults(ex) ==
    LET ok == SelectSeq(ex, LAMBDA o : o.kind = "returned")
    IN  [i \in 1..Len(ok) |-> ok[i].value[1]]

\* test_results of the returned dict
TestResults == output[1].test_results

HasCorrected(r) == "corrected_p_value" \in DOMAIN r

WithoutCorrected(r) == [k \in DOMAIN r \ {"corrected_p_value"} |-> r[k]]

ValidMethod == correction_method \in CorrectionMethods

\* C1: each specification runs on its own: one that raises is skipped, the
\* specifications after it still run, the call is never aborted by a test
\* (only by the correction of an unknown method), and the returned
\* test_results are the successful results in input order.
C1_SkipsRaisingKeepsOrder ==
    /\ Len(executed) = Len(test_specifications)
    /\ pc = "loop" => results = SuccessfulResults(executed)
    /\ pc = "raised" => ~ValidMethod
    /\ pc = "done" =>
          /\ Len(TestResults) = Len(SuccessfulResults(executed))
          /\ \A i \in 1..Len(TestResults) :
                WithoutCorrected(TestResults[i]) = SuccessfulResults(executed)[i]

\* a raising specification between two successful ones, both returned
C1_Witness ==
    /\ pc = "done"
    /\ Len(executed) = 3
    /\ executed[1].kind = "returned"
    /\ executed[2].kind = "raised"
    /\ executed[3].kind = "returned"
    /\ Len(TestResults) = 2
    /\ TestResults[1].test_name # TestResults[2].test_name

\* C2 as stated: with a valid method every returned result that has a
\* p_value carries a corrected_p_value, whatever the size of the batch.
C2_EveryPValueCorrected ==
    (pc = "done" /\ ValidMethod) =>
        \A i \in 1..Len(TestResults) :
            HasP(TestResults[i]) => HasCorrected(TestResults[i])

\* C2 amended: with a valid method a returned result that has a p_value
\* carries a corrected_p_value exactly when the batch yields at least two
\* results; the only result of a batch carries none.
C2_CorrectedWhenSeveralResults ==
    (pc = "done" /\ ValidMethod) =>
        \A i \in 1..Len(TestResults) :
            HasP(TestResults[i]) =>
                (HasCorrected(TestResults[i]) <=> Len(TestResults) > 1)

\* two results, one p-value: the p-valued one is corrected
C2_Witness ==
    /\ pc = "done"
    /\ ValidMethod
    /\ Len(TestResults) = 2
    /\ HasP(TestResults[1])
    /\ ~HasP(TestResults[2])
    /\ HasCorrected(TestResults[1])

\* index of the j-th result that has a p_value
NthWithP(rs, j) ==
    CHOOSE i \in 1..Len(rs) :
        HasP(rs[i]) /\ Cardinality({k \in 1..i : HasP(rs[k])}) = j

\* C3: the j-th result that has a p_value receives the j-th corrected value
\* of the p-values extracted in input order and is otherwise unchanged; a
\* result without p_value is returned as it was collected, with no
\* corrected_p_value.
C3_PositionalWriteBack ==
    (pc = "done" /\ ValidMethod /\ Len(TestResults) > 1) =>
        LET collected == SuccessfulResults(executed)
            p_values == PValuesOf(collected)
            corrected == ApplyMultipleComparisonCorrection(correction_method,
                                                           p_values).value
        IN  /\ \A j \in 1..Len(p_values) :
                  LET i == NthWithP(collected, j)
                  IN  /\ TestResults[i].corrected_p_value = corrected[j]
                      /\ WithoutCorrected(TestResults[i]) = collected[i]
            /\ \A i \in 1..Len(collected) :
                  ~HasP(collected[i]) => TestResults[i] = collected[i]

\* an effect size first, then two p-valued results corrected differently
C3_Witness ==
    /\ pc = "done"
    /\ ValidMethod
    /\ Len(TestResults) = 3
    /\ ~HasP(TestResults[1])
    /\ HasP(TestResults[2])
    /\ HasP(TestResults[3])
    /\ TestResults[2].corrected_p_value # TestResults[3].corrected_p_value

\* C4: the correction yields one corrected value per p-value, in the same
\* order (a larger p-value never gets a smaller corrected value, and no
\* corrected value is below its p-value), and under Bonferroni each is
\* min(1, p * k) with k the number of results that have a p_value.
C4_LengthAndBonferroni ==
    (pc = "done" /\ ValidMethod /\ Len(TestResults) > 1) =>
        LET withP == {i \in 1..Len(TestResults) : HasP(TestResults[i])}
            k == Cardinality(withP)
        IN  /\ {i \in 1..Len(TestResults) : HasCorrected(TestResults[i])} = withP
            /\ \A i \in withP :
                  /\ TestResults[i].corrected_p_value >= TestResults[i].p_value[1]
                  /\ TestResults[i].corrected_p_value <= PScale
            /\ \A i, j \in withP :
                  TestResults[i].p_value[1] <= TestResults[j].p_value[1] =>
                  TestResults[i].corrected_p_value <= TestResults[j].corrected_p_value
            /\ correction_method = "bonferroni" =>
                  \A i \in withP :
                      TestResults[i].corrected_p_value =
                          Min(PScale, TestResults[i].p_value[1] * k)

\* Bonferroni over two p-values and an effect size (k = 2): one corrected
\* value is clipped at 1, the other is twice its p-value
C4_Witness ==
    /\ pc = "done"
    /\ correction_method = "bonferroni"
    /\ Len(TestResults) = 3
    /\ \E i, j, n \in 1..Len(TestResults) :
          /\ ~HasP(TestResults[n])
          /\ HasP(TestResults[i])
          /\ HasP(TestResults[j])
          /\ TestResults[i].p_value[1] * 2 > PScale
          /\ TestResults[i].corrected_p_value = PScale
          /\ TestResults[j].corrected_p_value = TestResults[j].p_value[1] * 2
          /\ TestResults[j].corrected_p_value < PScale

\* C5 as stated: with an unknown correction method execute_test_suite raises
\* for every batch.
C5_UnknownMethodAlwaysRaises ==
    (pc \in {"done", "raised"} /\ ~ValidMethod) => pc = "raised"

\* a specification error: a variable count the helper rejects, or an
\* identifier the dispatch table lacks
IsSpecificationError(out) ==
    \/ out.kind = "none"
    \/ out.kind = "raised" /\ out.error = "ValueError" /\ ~out.read_data

NumReturned == Cardinality({i \in 1..Len(executed) : executed[i].kind = "returned"})

NumSpecificationErrors ==
    Cardinality({i \in 1..Len(executed) : IsSpecificationError(executed[i])})

\* C7 as stated: the output holds an entry for every specification error,
\* beside the entries of the successful tests.
C7_FailureEntryReported ==
    pc = "done" => Len(TestResults) >= NumReturned + NumSpecificationErrors

\* C7 amended: a specification error is fatal only to that test and leaves
\* no entry in the output: test_results holds the successful results only,
\* total_tests_executed counts them, and the rest of the batch still runs.
C7_FailureSkippedNotReported ==
    /\ Len(executed) = Len(test_specifications)
    /\ \A i \in 1..Len(executed) :
          IsSpecificationError(executed[i]) => executed[i].value = <<>>
    /\ Len(results) = NumReturned
    /\ pc = "done" =>
          /\ DOMAIN output[1] = {"success", "test_results", "metadata"}
          /\ Len(TestResults) = NumReturned
          /\ output[1].metadata.total_tests_executed = NumReturned

\* a wrong variable count and an unknown identifier, then a successful test
C7_Witness ==
    /\ pc = "done"
    /\ Len(executed) = 3
    /\ executed[1].kind = "raised" /\ IsSpecificationError(executed[1])
    /\ executed[2].kind = "none"
    /\ executed[3].kind = "returned"
    /\ Len(TestResults) = 1

FisherName == TestName("fisher_exact")

\* the contingency table of two columns of the dataset is 2x2
TableIs2x2(variables) == Levels(variables[1]) = 2 /\ Levels(variables[2]) = 2

\* C8: Fisher's exact test on a table that is not 2x2 raises ValueError and
\* yields no TestResult; every Fisher result of the batch is of a 2x2 table.
C8_FisherNeeds2x2 ==
    /\ \A i \in 1..Len(executed) :
          LET s == test_specifications[i]
          IN  (s.test = "fisher_exact" /\ Len(s.variables) = 2
                 /\ s.variables[1] \in DataColumns /\ s.variables[2] \in DataColumns
                 /\ ~TableIs2x2(s.variables)) =>
              /\ executed[i].kind = "raised"
              /\ executed[i].error = "ValueError"
              /\ executed[i].value = <<>>
    /\ \A i \in 1..Len(results) :
          results[i].test_name = FisherName => TableIs2x2(results[i].variables)

\* a batch with Fisher's test on a 2x3 table (skipped) and on a 2x2 table
C8_Witness ==
    /\ pc = "done"
    /\ \E i \in 1..Len(executed) :
          /\ test_specifications[i] = [test |-> "fisher_exact", variables |-> <<"g", "h">>]
          /\ executed[i].kind = "raised"
    /\ \E i \in 1..Len(TestResults) :
          /\ TestResults[i].test_name = FisherName
          /\ TestResults[i].variables = <<"g", "b">>

\* the result a KPSS or Ljung-Box procedure returns for a failed computation
IsFallbackResult(r) == r.statistic = 0 /\ r.p_value = Some(PScale)

\* the result of a computation that succeeded
IsLibraryResult(r) == r.statistic \in Statistics /\ HasP(r) /\ r.p_value[1] \in PValues

WithFallback(test_spec) == test_spec.test \in {"kpss_test", "ljung_box"}

\* C29: a KPSS or Ljung-Box specification raises only for a wrong number of
\* variables or a column the dataset lacks; otherwise it returns the
\* library's result or, for a failed computation, a result with statistic 0
\* and p_value 1, which is kept in test_results, counted in
\* total_tests_executed and, in a batch of several results, corrected as a
\* member of the family of p-values.
C29_FallbackResultKept ==
    /\ \A i \in 1..Len(executed) :
          WithFallback(test_specifications[i]) =>
              LET variables == test_specifications[i].variables
                  valid == Len(variables) = 1 /\ variables[1] \in DataColumns
              IN  /\ valid =>
                        /\ executed[i].kind = "returned"
                        /\ \/ IsFallbackResult(executed[i].value[1])
                           \/ IsLibraryResult(executed[i].value[1])
                  /\ ~valid =>
                        /\ executed[i].kind = "raised"
                        /\ executed[i].error \in {"ValueError", "KeyError"}
    /\ pc = "done" =>
          LET collected == SuccessfulResults(executed)
          IN  /\ output[1].metadata.total_tests_executed = Len(collected)
              /\ \A i \in 1..Len(collected) :
                    IsFallbackResult(collected[i]) =>
                        /\ WithoutCorrected(TestResults[i]) = collected[i]
                        /\ \E j \in 1..Len(PValuesOf(collected)) :
                              PValuesOf(collected)[j] = PScale
                        /\ Len(collected) > 1 => HasCorrected(TestResults[i])

\* a batch of a correlation, a KPSS test whose computation failed and an
\* effect size: three results are returned, the second is the fallback
\* result and carries a corrected p-value
C29_Witness ==
    /\ pc = "done"
    /\ Len(test_specifications) = 3
    /\ test_specifications[2].test = "kpss_test"
    /\ Len(TestResults) = 3
    /\ output[1].metadata.total_tests_executed = 3
    /\ IsFallbackResult(TestResults[2])
    /\ HasCorrected(TestResults[2])
    /\ TestResults[2].corrected_p_value = PScale
    /\ HasCorrected(TestResults[1])
    /\ TestResults[1].corrected_p_value > TestResults[1].p_value[1]

\* ========================================================================
\* Properties of _execute_single_test (specification DispatchSpec)
\* ========================================================================
Normality == {"shapiro_wilk", "kolmogorov_smirnov", "anderson_darling", "jarque_bera"}
TimeSeries == {"augmented_dickey_fuller", "kpss_test", "ljung_box"}
TwoSample == {"t_test_independent", "t_test_paired", "mann_whitney_u", "wilcoxon_signed_rank"}
Correlation == {"pearson_correlation", "spearman_correlation", "kendall_tau"}
Categorical == {"chi_square_independence", "fisher_exact"}
EffectSizes == {"cohens_d", "hedges_g"}
SeveralGroups == {"anova_one_way", "kruskal_wallis", "levene_test", "bartlett_test"}

\* the variable-count precondition of an identifier
Precondition(test, n) ==
    IF test \in Normality \cup TimeSeries THEN n = 1
    ELSE IF test \in TwoSample \cup Correlation \cup Categorical \cup EffectSizes THEN n = 2
    ELSE n >= 2

\* C6: for each of the 22 identifiers a variable list that violates the
\* identifier's precondition raises ValueError before the dataset is read,
\* and no TestResult is produced.
C6_CountCheckedBeforeData ==
    /\ Cardinality(test_methods) = 22
    /\ test_methods = Normality \cup TimeSeries \cup TwoSample \cup Correlation
                        \cup Categorical \cup EffectSizes \cup SeveralGroups
    /\ \A i \in 1..Len(executed) :
          LET s == test_specifications[i]
          IN  (s.test \in test_methods /\ ~Precondition(s.test, Len(s.variables))) =>
              /\ executed[i].kind = "raised"
              /\ executed[i].error = "ValueError"
              /\ ~executed[i].read_data
              /\ executed[i].value = <<>>

\* a two-sample test given three columns of the dataset
C6_Witness ==
    /\ Len(executed) = 1
    /\ test_specifications[1] = [test |-> "t_test_independent",
                                 variables |-> <<"x", "g", "h">>]
    /\ executed[1].kind = "raised"
    /\ ~executed[1].read_data

\* ========================================================================
\* Properties of repeated calls of execute_test_suite (specification
\* RepeatSpec)
\* ========================================================================
\* the specification of the call is the Anderson-Darling test of a column
AndersonDarlingRuns ==
    test_specifications[1] = [test |-> "anderson_darling", variables |-> <<"x">>]

\* every call made so far has returned one result, with the p-value p
EveryRunReports(p) ==
    \A k \in 1..Len(runs) : Len(runs[k]) = 1 /\ runs[k][1].p_value = Some(p)

\* C24 as stated: for every series on which the library's test returns,
\* the Anderson-Darling procedure reports p = 0.05 if the statistic exceeds
\* the second critical value and p = 0.10 otherwise.
C24_SecondCriticalValue ==
    (AndersonDarlingRuns /\ library.env.lib_ok) =>
        EveryRunReports(IF library.env.exceeds >= 2 THEN 60 ELSE 120)

\* C24 amended: it reports p = 0.05 if the statistic exceeds the third
\* critical value (critical_values[2], the 5% level) and p = 0.10
\* otherwise; when the library's test raises, no result is reported.
C24_ThirdCriticalValue ==
    AndersonDarlingRuns =>
        IF library.env.lib_ok
        THEN EveryRunReports(IF library.env.exceeds >= 3 THEN 60 ELSE 120)
        ELSE \A k \in 1..Len(runs) : runs[k] = <<>>

\* a statistic between the second and the third critical value: p = 0.10
C24_Witness ==
    /\ AndersonDarlingRuns
    /\ library.env.lib_ok
    /\ library.env.exceeds = 2
    /\ Len(runs) >= 1
    /\ runs[1][1].p_value = Some(120)
    /\ runs[1][1].statistic = library.env.statistic

\* C25 as stated: two calls of execute_test_suite on the same dataset with
\* the same specifications return the same test_results, Shapiro-Wilk on a
\* column of more than 5000 observations included.
C25_SameResultsOnRerun ==
    \A j, k \in 1..Len(runs) : runs[j] = runs[k]

\* ========================================================================
\* Properties of _validate_single_hypothesis (specification ValidateSpec)
\* ========================================================================
\* the variables of the validated hypothesis the dataset has no column for
MissingColumns ==
    IF data = None THEN SeqToSet(hypothesis.variables)
    ELSE SeqToSet(hypothesis.variables) \ SeqToSet(data[1].columns)

NamesInRecommendation(v, var) ==
    \E i \in 1..Len(v.recommendations) :
        /\ v.recommendations[i][1] = "Collect data for missing variables"
        /\ var \in SeqToSet(v.recommendations[i][2])

\* C11 as stated: a hypothesis with a variable that is no column of the
\* dataset is validated without an error, with data_availability false for
\* that variable, is_testable false and a recommendation naming it.
C11_MissingColumnValidated ==
    (gpc = "validated" /\ MissingColumns # {}) =>
        /\ ~validation[1].raised
        /\ \A var \in MissingColumns :
              /\ ~validation[1].value.data_availability[var]
              /\ NamesInRecommendation(validation[1].value, var)
        /\ ~validation[1].value.is_testable

\* the score the four components add up to, for a power score ps
FeasibilityFormula(v, ps) ==
    (3 * FeasibilityOne * CountTrue(v.data_availability))
            \div (10 * Cardinality(DOMAIN v.data_availability))
    + (IF v.sample_size_adequacy THEN (3 * FeasibilityOne) \div 10
       ELSE (3 * FeasibilityOne) \div 20)
    + (2 * FeasibilityOne * ps) \div 10000
    + (2 * FeasibilityOne * CountTrue(v.assumption_checks))
            \div (10 * Cardinality(DOMAIN v.assumption_checks))

C26_TestableWhenColumnsExist ==
    (gpc = "validated" /\ data # None /\ MissingColumns = {}) =>
        /\ ~validation[1].raised
        /\ validation[1].value.is_testable
        /\ validation[1].value.feasibility_score >= (67 * FeasibilityOne) \div 100
        /\ \A a \in DOMAIN validation[1].value.assumption_checks :
              validation[1].value.assumption_checks[a]

\* a correlation hypothesis whose columns have no complete row: the sample
\* is inadequate, the power estimate is the lowest one (0.1), the
\* feasibility score is 0.67 and the hypothesis is testable
C26_Witness ==
    /\ gpc = "validated"
    /\ data # None
    /\ MissingColumns = {}
    /\ CompleteRows(data[1], hypothesis.variables) = 0
    /\ ~validation[1].raised
    /\ ~validation[1].value.sample_size_adequacy
    /\ validation[1].value.statistical_power = Some(100)
    /\ validation[1].value.feasibility_score = (67 * FeasibilityOne) \div 100
    /\ validation[1].value.is_testable

\* ========================================================================
\* Properties of the numeric procedures (specification NumericSpec)
\* ========================================================================
Degenerate(x) == x.kind \in {"inf", "nan"}

\* C18 as stated: no successful test result carries an infinite or
\* not-a-number statistic, effect size or confidence bound; a zero
\* effect-size denominator or an undefined correlation interval is
\* reported as a failure of the test.
C18_NoDegenerateResult ==
    measured # None =>
        \A i \in 1..Len(measured[1].test_results) :
            LET r == measured[1].test_results[i]
            IN  /\ ~Degenerate(r.statistic)
                /\ ~Degenerate(r.effect_size)
                /\ r.confidence_interval # None =>
                      /\ r.confidence_interval[1].lower # "nan"
                      /\ r.confidence_interval[1].upper # "nan"

\* Cohen's d and Hedges' g were computed on the same two columns
BothEffectSizes ==
    /\ measured # None
    /\ measured[1].tests = <<"cohens_d", "hedges_g">>
    /\ Len(measured[1].test_results) = 2

DegreesOfFreedom == Len(DropNa(column1)) + Len(DropNa(column2)) - 2

\* C19 as stated: wherever d is defined the correction factor
\* 1 - 3 / (4 (n1 + n2 - 2) - 1) is below 1 and |g| < |d|.
C19_HedgesStrictlySmaller ==
    (BothEffectSizes /\ measured[1].test_results[1].statistic.kind = "finite") =>
        LET d == measured[1].test_results[1].statistic
            g == measured[1].test_results[2].statistic
        IN  /\ 4 * DegreesOfFreedom - 1 > 0
            /\ g.kind = "finite"
            /\ g.num * d.den < d.num * g.den

\* C19 amended: wherever d is finite the correction factor lies in [0, 1),
\* g has the sign of d, |g| < |d| when d is not 0, and g = d = 0 when the
\* two means are equal.
C19_HedgesSmallerUnlessZero ==
    (BothEffectSizes /\ measured[1].test_results[1].statistic.kind = "finite") =>
        LET d == measured[1].test_results[1].statistic
            g == measured[1].test_results[2].statistic
        IN  /\ 4 * DegreesOfFreedom - 1 > 0
            /\ 4 * DegreesOfFreedom - 4 >= 0
            /\ g.kind = "finite"
            /\ g.sign = d.sign
            /\ d.num # 0 => g.num * d.den < d.num * g.den
            /\ d.num = 0 => g.num = 0

\* a finite d other than 0 and its smaller g
C19_Witness ==
    /\ BothEffectSizes
    /\ measured[1].test_results[1].statistic.kind = "finite"
    /\ measured[1].test_results[1].statistic.num # 0
    /\ measured[1].test_results[2].statistic.num # 0
    /\ measured[1].test_results[2].statistic.num * measured[1].test_results[1].statistic.den
          < measured[1].test_results[1].statistic.num * measured[1].test_results[2].statistic.den

\* C30 as stated: for every pair of columns, with or without missing
\* values, the effect_size of the independent t-test equals the statistic
\* of calculate_cohens_d on the same columns.
C30_TTestEffectSizeIsCohensD ==
    (measured # None /\ measured[1].tests = <<"t_test_independent", "cohens_d">>) =>
        /\ Len(measured[1].test_results) = 2
        /\ measured[1].test_results[1].effect_size = measured[1].test_results[2].statistic

====
